---- MODULE Spec2Model ----
(***************************************************************************)
(* Model of the request engine of openrequest:                             *)
(*   src-tauri/src/oauth.rs     OAuthManager (OAuth 2.0 flows) and         *)
(*                              parse_callback_url                         *)
(*   src-tauri/src/lib.rs       the command entry points                   *)
(*   src-tauri/src/auth.rs      the Digest, OAuth 1.0 and AWS signers      *)
(*   src-tauri/src/database.rs  environments, response cache, collections  *)
(*                                                                         *)
(* Spec          one OAuthManager used through its pub methods             *)
(* SpecCmd       the four oauth_* commands of lib.rs                       *)
(* SpecDigest    the Digest signer, two most recent calls kept             *)
(* SpecCallback  parse_callback_url applied to bounded callback URLs       *)
(* SpecEncode    percent_encode applied to bounded strings                 *)
(* SpecOAuth1    the OAuth 1.0 signer applied to bounded requests          *)
(* SpecAws       the AWS Signature V4 signer applied to bounded requests   *)
(* SpecSend      the authentication dispatch of send_api_request           *)
(* SpecConc      signer calls running side by side                         *)
(* SpecEnv       the environments table under interleaved commands         *)
(* SpecCache     the response cache and its clock                          *)
(* SpecColl      collections and requests under interleaved commands       *)
(***************************************************************************)
EXTENDS Integers, Sequences, FiniteSets, TLC

VARIABLES manager, flowUrl, used, cmdFlow, last,
          digestLast, digestPrev,
          cbLast,
          enc, oauth1, aws, send,
          conc, envs, cache, coll

oauthVars == <<manager, flowUrl, used, cmdFlow, last>>
digestVars == <<digestLast, digestPrev>>
cbVars == <<cbLast>>
signVars == <<enc, oauth1, aws, send>>
storeVars == <<conc, envs, cache, coll>>
vars == <<manager, flowUrl, used, cmdFlow, last, digestLast, digestPrev, cbLast,
          enc, oauth1, aws, send, conc, envs, cache, coll>>

(* Option::None *)
None == "None"

(***************************************************************************)
(* Bounds                                                                  *)
(***************************************************************************)
NumTokens == 2
NumVerifiers == 2

(* values CsrfToken::new_random can draw *)
Tokens == {"csrf" \o ToString(i) : i \in 1..NumTokens}
(* values PkceCodeChallenge::new_random_sha256 can draw as verifier *)
Verifiers == {"ver" \o ToString(i) : i \in 1..NumVerifiers}
(* state values a caller can present: every token and one foreign value *)
States == Tokens \cup {"forged"}
Codes == {"code1"}
RefreshTokens == {"refresh_a", "refresh_b"}

(* OAuthConfig, oauth.rs:28-36.  urls_valid stands for the three URL      *)
(* strings being accepted by AuthUrl::new, TokenUrl::new, RedirectUrl::new *)
Configs == [client_secret : {None, "secret"}, use_pkce : BOOLEAN, urls_valid : BOOLEAN]

(* what the token endpoint can answer to one request *)
Responses ==
    {[ok |-> FALSE, refresh_token |-> None]}
    \cup {[ok |-> TRUE, refresh_token |-> r] : r \in {None, "refresh_new"}}

(* the S256 code challenge of a verifier, kept symbolic and injective *)
S256(v) == "S256(" \o v \o ")"

(***************************************************************************)
(* OAuthManager, oauth.rs:39-192                                           *)
(***************************************************************************)
New(config) == [config |-> config, pkce_verifier |-> None, csrf_token |-> None]

(* absent values of the record types *)
NoUrl == [state |-> None, code_challenge |-> None, code_challenge_method |-> None]
NoToken == [access_token |-> None, token_type |-> None, refresh_token |-> None]
NoResponse == [ok |-> FALSE, refresh_token |-> None]
NoFlow == [config |-> [client_secret |-> None, use_pkce |-> FALSE, urls_valid |-> FALSE],
           url |-> NoUrl]

(* result of a call that failed before any request was built *)
Fail(msg) == [ok |-> FALSE, err |-> msg, token |-> NoToken, requests |-> <<>>]

TokenOf(resp, refresh) ==
    [access_token |-> "access", token_type |-> "Bearer", refresh_token |-> refresh]

(* a failed request sent a second time *)
Request_RetryOnce(req, resp, refresh) ==
    IF resp.ok
    THEN [ok |-> TRUE, err |-> None, token |-> TokenOf(resp, refresh), requests |-> <<req>>]
    ELSE [ok |-> FALSE, err |-> "token request failed", token |-> NoToken,
          requests |-> <<req, req>>]

(* one request_async(...).await? : the request is sent, then the answer    *)
(* decides between Err and the token                                       *)
Request(req, resp, refresh) ==
    IF resp.ok
    THEN [ok |-> TRUE, err |-> None, token |-> TokenOf(resp, refresh), requests |-> <<req>>]
    ELSE [ok |-> FALSE, err |-> "token request failed", token |-> NoToken, requests |-> <<req>>]

(* get_authorization_url keeping a token the manager already holds *)
GetAuthorizationUrl_TokenReused(self, t, v) ==
    IF ~self.config.urls_valid
    THEN [self |-> self, ok |-> FALSE, err |-> "invalid url", url |-> NoUrl]
    ELSE LET pkce == self.config.use_pkce
             token == IF self.csrf_token # None THEN self.csrf_token ELSE t
             self1 == IF pkce THEN [self EXCEPT !.pkce_verifier = v] ELSE self
             url == [state |-> token,
                     code_challenge |-> IF pkce THEN S256(v) ELSE None,
                     code_challenge_method |-> IF pkce THEN "S256" ELSE None]
         IN [self |-> [self1 EXCEPT !.csrf_token = token],
             ok |-> TRUE, err |-> None, url |-> url]

(* get_authorization_url(&mut self): t and v are the random draws *)
GetAuthorizationUrl(self, t, v) ==
    IF ~self.config.urls_valid
    THEN [self |-> self, ok |-> FALSE, err |-> "invalid url", url |-> NoUrl]
    ELSE LET pkce == self.config.use_pkce
             self1 == IF pkce THEN [self EXCEPT !.pkce_verifier = v] ELSE self
             url == [state |-> t,
                     code_challenge |-> IF pkce THEN S256(v) ELSE None,
                     code_challenge_method |-> IF pkce THEN "S256" ELSE None]
         IN [self |-> [self1 EXCEPT !.csrf_token = t],
             ok |-> TRUE, err |-> None, url |-> url]

(* exchange_code_for_token with the comparison against the stored token left out *)
ExchangeCodeForToken_Unchecked(self, code, csrf, resp) ==
    IF ~self.config.urls_valid
    THEN Fail("invalid url")
    ELSE Request([grant_type |-> "authorization_code", code |-> code,
                  code_verifier |-> self.pkce_verifier, refresh_token |-> None],
                 resp, resp.refresh_token)

(* exchange_code_for_token(&self, authorization_code, csrf_token) *)
ExchangeCodeForToken(self, code, csrf, resp) ==
    IF self.csrf_token # None /\ self.csrf_token # csrf
    THEN Fail("CSRF token mismatch")
    ELSE IF ~self.config.urls_valid
    THEN Fail("invalid url")
    ELSE Request([grant_type |-> "authorization_code", code |-> code,
                  code_verifier |-> self.pkce_verifier, refresh_token |-> None],
                 resp, resp.refresh_token)

(* client_credentials_flow passing the optional secret on as it is *)
ClientCredentialsFlow_OptionalSecret(self, resp) ==
    IF ~self.config.urls_valid
    THEN Fail("invalid url")
    ELSE Request([grant_type |-> "client_credentials", code |-> None,
                  code_verifier |-> None, refresh_token |-> None],
                 resp, resp.refresh_token)

(* client_credentials_flow(&self) *)
ClientCredentialsFlow(self, resp) ==
    IF self.config.client_secret = None
    THEN Fail("Client secret required for client credentials flow")
    ELSE IF ~self.config.urls_valid
    THEN Fail("invalid url")
    ELSE Request([grant_type |-> "client_credentials", code |-> None,
                  code_verifier |-> None, refresh_token |-> None],
                 resp, resp.refresh_token)

(* refresh_token copying the response's refresh token without the or_else *)
RefreshToken_NoFallback(self, refresh, resp) ==
    IF self.config.client_secret = None
    THEN Fail("Client secret required for token refresh")
    ELSE IF ~self.config.urls_valid
    THEN Fail("invalid url")
    ELSE Request([grant_type |-> "refresh_token", code |-> None,
                  code_verifier |-> None, refresh_token |-> refresh],
                 resp, resp.refresh_token)

(* refresh_token(&self, refresh_token) *)
RefreshToken(self, refresh, resp) ==
    IF self.config.client_secret = None
    THEN Fail("Client secret required for token refresh")
    ELSE IF ~self.config.urls_valid
    THEN Fail("invalid url")
    ELSE Request([grant_type |-> "refresh_token", code |-> None,
                  code_verifier |-> None, refresh_token |-> refresh],
                 resp,
                 IF resp.refresh_token # None THEN resp.refresh_token ELSE refresh)

(***************************************************************************)
(* The record of the most recent call: who was called, on which manager    *)
(* value (self, as it was when the call started), with which arguments,    *)
(* and what came back.                                                     *)
(***************************************************************************)
NoCall ==
    [op |-> "none", self |-> New(NoFlow.config), code |-> None, state |-> None,
     refresh |-> None, resp |-> NoResponse, ok |-> FALSE, err |-> None, url |-> NoUrl,
     token |-> NoToken, requests |-> <<>>, used_before |-> FALSE, flow_url |-> NoUrl]

(***************************************************************************)
(* Actions on the long-lived manager (the pub API of OAuthManager)         *)
(***************************************************************************)
NewManager(config) ==
    /\ manager' = New(config)
    /\ flowUrl' = NoUrl
    /\ used' = FALSE
    /\ last' = [NoCall EXCEPT !.op = "new", !.ok = TRUE]
    /\ UNCHANGED <<cmdFlow, digestVars, cbVars, signVars, storeVars>>

ManagerGetAuthorizationUrl(t, v) ==
    /\ LET out == GetAuthorizationUrl(manager, t, v)
       IN /\ manager' = out.self
          /\ flowUrl' = IF out.ok THEN out.url ELSE flowUrl
          /\ used' = IF out.ok THEN FALSE ELSE used
          /\ last' = [NoCall EXCEPT !.op = "get_authorization_url", !.self = manager,
                                    !.ok = out.ok, !.err = out.err, !.url = out.url]
    /\ UNCHANGED <<cmdFlow, digestVars, cbVars, signVars, storeVars>>

ManagerExchangeCodeForToken(code, csrf, resp) ==
    /\ LET out == ExchangeCodeForToken(manager, code, csrf, resp)
       IN /\ used' = (used \/ out.requests # <<>>)
          /\ last' = [NoCall EXCEPT !.op = "exchange_code_for_token", !.self = manager,
                                    !.code = code, !.state = csrf, !.resp = resp,
                                    !.ok = out.ok, !.err = out.err, !.token = out.token,
                                    !.requests = out.requests,
                                    !.used_before = used, !.flow_url = flowUrl]
    /\ UNCHANGED <<manager, flowUrl, cmdFlow, digestVars, cbVars, signVars, storeVars>>

ManagerClientCredentialsFlow(resp) ==
    /\ LET out == ClientCredentialsFlow(manager, resp)
       IN last' = [NoCall EXCEPT !.op = "client_credentials_flow", !.self = manager,
                                 !.resp = resp,
                                 !.ok = out.ok, !.err = out.err, !.token = out.token,
                                 !.requests = out.requests]
    /\ UNCHANGED <<manager, flowUrl, used, cmdFlow, digestVars, cbVars, signVars, storeVars>>

ManagerRefreshToken(refresh, resp) ==
    /\ LET out == RefreshToken(manager, refresh, resp)
       IN last' = [NoCall EXCEPT !.op = "refresh_token", !.self = manager,
                                 !.refresh = refresh, !.resp = resp,
                                 !.ok = out.ok, !.err = out.err, !.token = out.token,
                                 !.requests = out.requests]
    /\ UNCHANGED <<manager, flowUrl, used, cmdFlow, digestVars, cbVars, signVars, storeVars>>

(***************************************************************************)
(* The command entry points, lib.rs:714-757.  Each builds its own manager, *)
(* which is dropped when the command returns.                              *)
(***************************************************************************)
(* oauth_get_authorization_url(config), lib.rs:715-718 *)
oauth_get_authorization_url(config, t, v) ==
    /\ LET oauth_manager == New(config)
           out == GetAuthorizationUrl(oauth_manager, t, v)
       IN /\ cmdFlow' = IF out.ok THEN [config |-> config, url |-> out.url] ELSE cmdFlow
          /\ last' = [NoCall EXCEPT !.op = "oauth_get_authorization_url",
                                    !.self = oauth_manager,
                                    !.ok = out.ok, !.err = out.err, !.url = out.url]
    /\ UNCHANGED <<manager, flowUrl, used, digestVars, cbVars, signVars, storeVars>>

(* oauth_exchange_code_for_token(config, authorization_code, csrf_token),  *)
(* lib.rs:720-734                                                          *)
oauth_exchange_code_for_token(config, code, csrf, t, v, resp) ==
    /\ LET oauth_manager == New(config)
           gen == GetAuthorizationUrl(oauth_manager, t, v)
           out == ExchangeCodeForToken(gen.self, code, csrf, resp)
       IN last' = IF ~gen.ok
                  THEN [NoCall EXCEPT !.op = "oauth_exchange_code_for_token",
                                      !.self = gen.self, !.code = code, !.state = csrf,
                                      !.err = gen.err,
                                      !.flow_url = cmdFlow.url]
                  ELSE [NoCall EXCEPT !.op = "oauth_exchange_code_for_token",
                                      !.self = gen.self, !.code = code, !.state = csrf,
                                      !.resp = resp,
                                      !.ok = out.ok, !.err = out.err, !.token = out.token,
                                      !.requests = out.requests,
                                      !.flow_url = cmdFlow.url]
    /\ UNCHANGED <<manager, flowUrl, used, cmdFlow, digestVars, cbVars, signVars, storeVars>>

(* oauth_client_credentials_flow(config), lib.rs:736-745 *)
oauth_client_credentials_flow(config, resp) ==
    /\ LET oauth_manager == New(config)
           out == ClientCredentialsFlow(oauth_manager, resp)
       IN last' = [NoCall EXCEPT !.op = "oauth_client_credentials_flow",
                                 !.self = oauth_manager, !.resp = resp,
                                 !.ok = out.ok, !.err = out.err, !.token = out.token,
                                 !.requests = out.requests]
    /\ UNCHANGED <<manager, flowUrl, used, cmdFlow, digestVars, cbVars, signVars, storeVars>>

(* oauth_refresh_token(config, refresh_token), lib.rs:747-757 *)
oauth_refresh_token(config, refresh, resp) ==
    /\ LET oauth_manager == New(config)
           out == RefreshToken(oauth_manager, refresh, resp)
       IN last' = [NoCall EXCEPT !.op = "oauth_refresh_token",
                                 !.self = oauth_manager,
                                 !.refresh = refresh, !.resp = resp,
                                 !.ok = out.ok, !.err = out.err, !.token = out.token,
                                 !.requests = out.requests]
    /\ UNCHANGED <<manager, flowUrl, used, cmdFlow, digestVars, cbVars, signVars, storeVars>>


(***************************************************************************)
(* DigestAuthConfig::generate_authorization_header, auth.rs:31-79          *)
(***************************************************************************)
NumNonces == 2

(* values generate_nonce() can draw, auth.rs:289-295 *)
Nonces == {"rnd" \o ToString(i) : i \in 1..NumNonces}

(* DigestAuthConfig, auth.rs:17-28 *)
DigestConfigs ==
    [username : {"user"}, password : {"pass", "pw2"}, realm : {"test"},
     nonce : {"dcd98b"}, uri : {"/dir"}, method : {"GET"},
     qop : {None, "auth"}, nc : {None, "00000002"},
     cnonce : {None, "0a4f113b"}, opaque : {None, "5ccc"}]

(* format!("{:x}", md5::compute(..)), kept symbolic and injective *)
Md5Hex(s) == "md5(" \o s \o ")"

RECURSIVE Join(_, _)
Join(parts, sep) ==
    IF Len(parts) = 0 THEN ""
    ELSE IF Len(parts) = 1 THEN parts[1]
    ELSE parts[1] \o sep \o Join(Tail(parts), sep)

(* the default nonce count one digit long *)
DigestNc_ShortDefault(config) == IF config.nc # None THEN config.nc ELSE "1"

(* self.nc.as_deref().unwrap_or("00000001") *)
DigestNc(config) == IF config.nc # None THEN config.nc ELSE "00000001"

(* the supplied cnonce thrown away for the generated one *)
DigestCnonce_AlwaysGenerated(config, default_cnonce) == default_cnonce

(* self.cnonce.as_deref().unwrap_or(&default_cnonce) *)
DigestCnonce(config, default_cnonce) ==
    IF config.cnonce # None THEN config.cnonce ELSE default_cnonce

(* an absent opaque emitted as the empty string *)
DigestOpaque_Always(auth_parts, config) ==
    Append(auth_parts,
           "opaque=\"" \o (IF config.opaque # None THEN config.opaque ELSE "") \o "\"")

(* if let Some(opaque) = &self.opaque { auth_parts.push(..) }, auth.rs:74-76 *)
DigestOpaque(auth_parts, config) ==
    IF config.opaque # None
    THEN Append(auth_parts, "opaque=\"" \o config.opaque \o "\"")
    ELSE auth_parts

(* one call: d1 is the generate_nonce() of line 44, d2 the one of line 69; *)
(* the record keeps the locals of the call and the returned header         *)
DigestGenerate(config, d1, d2) ==
    LET ha1_hash == Md5Hex(config.username \o ":" \o config.realm \o ":" \o config.password)
        ha2_hash == Md5Hex(config.method \o ":" \o config.uri)
        hasQop == config.qop # None
        nc == IF hasQop THEN DigestNc(config) ELSE None
        default_cnonce == IF hasQop THEN d1 ELSE None
        cnonce == IF hasQop THEN DigestCnonce(config, d1) ELSE None
        response_input ==
            IF hasQop
            THEN Join(<<ha1_hash, config.nonce, nc, cnonce, config.qop, ha2_hash>>, ":")
            ELSE Join(<<ha1_hash, config.nonce, ha2_hash>>, ":")
        response == Md5Hex(response_input)
        base == << "username=\"" \o config.username \o "\"",
                   "realm=\"" \o config.realm \o "\"",
                   "nonce=\"" \o config.nonce \o "\"",
                   "uri=\"" \o config.uri \o "\"",
                   "response=\"" \o response \o "\"" >>
        withQop ==
            IF hasQop
            THEN base \o << "qop=" \o config.qop,
                            "nc=" \o DigestNc(config),
                            "cnonce=\"" \o DigestCnonce(config, d2) \o "\"" >>
            ELSE base
        auth_parts == DigestOpaque(withQop, config)
    IN [called |-> TRUE, config |-> config,
        nc |-> nc, default_cnonce |-> default_cnonce, cnonce |-> cnonce,
        response_input |-> response_input, response |-> response,
        auth_parts |-> auth_parts,
        header |-> "Digest " \o Join(auth_parts, ", ")]

(* no call yet *)
NoDigest ==
    [called |-> FALSE,
     config |-> [username |-> None, password |-> None, realm |-> None, nonce |-> None,
                 uri |-> None, method |-> None, qop |-> None, nc |-> None,
                 cnonce |-> None, opaque |-> None],
     nc |-> None, default_cnonce |-> None, cnonce |-> None,
     response_input |-> None, response |-> None, auth_parts |-> <<>>, header |-> None]

(* a caller invokes the signer; the previous call is kept for comparison *)
DigestCall(config, d1, d2) ==
    /\ digestPrev' = digestLast
    /\ digestLast' = DigestGenerate(config, d1, d2)
    /\ UNCHANGED <<oauthVars, cbVars, signVars, storeVars>>

(***************************************************************************)
(* parse_callback_url, oauth.rs:214-229                                    *)
(***************************************************************************)
MaxPairs == 3

QueryKeys == {"code", "state", "error"}
QueryValues == {"abc", "xyz"}
QueryPairs == [key : QueryKeys, value : QueryValues]

(* a callback URL: whether Url::parse accepts it, and the pairs its query  *)
(* string yields through query_pairs(), in order                           *)
CallbackUrls ==
    [parses : BOOLEAN, query : UNION {[1..n -> QueryPairs] : n \in 0..MaxPairs}]

(* .collect() into a HashMap: a later pair replaces an earlier one with    *)
(* the same key                                                            *)
RECURSIVE Collect(_, _)
Collect(pairs, map) ==
    IF pairs = <<>> THEN map
    ELSE LET p == Head(pairs)
             inserted == [k \in DOMAIN map \cup {p.key} |->
                             IF k = p.key THEN p.value ELSE map[k]]
         IN Collect(Tail(pairs), inserted)

EmptyMap == [k \in {} |-> None]

CallbackErr(msg) == [ok |-> FALSE, err |-> msg, code |-> None, state |-> None]

(* parse_callback_url with a missing state read as the empty string *)
parse_callback_url_DefaultState(url) ==
    IF ~url.parses THEN CallbackErr("invalid url")
    ELSE LET query_pairs == Collect(url.query, EmptyMap)
         IN IF "code" \notin DOMAIN query_pairs
            THEN CallbackErr("Authorization code not found in callback URL")
            ELSE [ok |-> TRUE, err |-> None, code |-> query_pairs["code"],
                  state |-> IF "state" \in DOMAIN query_pairs
                            THEN query_pairs["state"] ELSE ""]

parse_callback_url(url) ==
    IF ~url.parses THEN CallbackErr("invalid url")
    ELSE LET query_pairs == Collect(url.query, EmptyMap)
         IN IF "code" \notin DOMAIN query_pairs
            THEN CallbackErr("Authorization code not found in callback URL")
            ELSE IF "state" \notin DOMAIN query_pairs
            THEN CallbackErr("State parameter not found in callback URL")
            ELSE [ok |-> TRUE, err |-> None,
                  code |-> query_pairs["code"], state |-> query_pairs["state"]]

NoCallback ==
    [called |-> FALSE, url |-> [parses |-> FALSE, query |-> <<>>],
     result |-> CallbackErr(None)]

(* oauth_parse_callback_url(callback_url), lib.rs:759-762 *)
oauth_parse_callback_url(url) ==
    /\ cbLast' = [called |-> TRUE, url |-> url, result |-> parse_callback_url(url)]
    /\ UNCHANGED <<oauthVars, digestVars, signVars, storeVars>>

(***************************************************************************)
(* Initial values of the three groups of variables                         *)
(***************************************************************************)
OAuthInit ==
    /\ manager \in {New(config) : config \in Configs}
    /\ flowUrl = NoUrl
    /\ used = FALSE
    /\ cmdFlow = NoFlow
    /\ last = NoCall

DigestIdle ==
    /\ digestLast = NoDigest
    /\ digestPrev = NoDigest

CallbackIdle == cbLast = NoCallback

(* the variables of the signers before any call of theirs *)
Idle == [phase |-> "idle"]

SignIdle ==
    /\ enc = Idle
    /\ oauth1 = Idle
    /\ aws = Idle
    /\ send = Idle

StoreIdle ==
    /\ conc = Idle
    /\ envs = Idle
    /\ cache = Idle
    /\ coll = Idle

Init == OAuthInit /\ DigestIdle /\ CallbackIdle /\ SignIdle /\ StoreIdle

Next ==
    \/ \E config \in Configs : NewManager(config)
    \/ \E t \in Tokens, v \in Verifiers : ManagerGetAuthorizationUrl(t, v)
    \/ \E code \in Codes, csrf \in States, resp \in Responses :
          ManagerExchangeCodeForToken(code, csrf, resp)
    \/ \E resp \in Responses : ManagerClientCredentialsFlow(resp)
    \/ \E refresh \in RefreshTokens, resp \in Responses : ManagerRefreshToken(refresh, resp)

(* one OAuthManager used through its pub methods *)
Spec == Init /\ [][Next]_vars

NextCmd ==
    \/ \E config \in Configs, t \in Tokens, v \in Verifiers :
          oauth_get_authorization_url(config, t, v)
    \/ \E config \in Configs, code \in Codes, csrf \in States,
          t \in Tokens, v \in Verifiers, resp \in Responses :
          oauth_exchange_code_for_token(config, code, csrf, t, v, resp)
    \/ \E config \in Configs, resp \in Responses : oauth_client_credentials_flow(config, resp)
    \/ \E config \in Configs, refresh \in RefreshTokens, resp \in Responses :
          oauth_refresh_token(config, refresh, resp)

(* the start of the specifications that leave the long-lived manager alone *)
InitCmd ==
    /\ manager = New(NoFlow.config)
    /\ flowUrl = NoUrl
    /\ used = FALSE
    /\ cmdFlow = NoFlow
    /\ last = NoCall
    /\ DigestIdle
    /\ CallbackIdle
    /\ SignIdle
    /\ StoreIdle

(* the four oauth_* commands, each on a manager of its own *)
SpecCmd == InitCmd /\ [][NextCmd]_vars

(***************************************************************************)
(* Properties of the authorization-code flow                               *)
(***************************************************************************)
IsExchange == last.op = "exchange_code_for_token"
IsCmdExchange == last.op = "oauth_exchange_code_for_token"
CsrfMismatch == last.self.csrf_token # None /\ last.state # last.self.csrf_token
SameFlowAsPhase1 == cmdFlow # NoFlow /\ last.self.config = cmdFlow.config

(* C1: an exchange_code_for_token call whose state argument differs from   *)
(* the CSRF token that get_authorization_url recorded in the same manager  *)
(* returns the error "CSRF token mismatch" and sends no token request.     *)
C1_CsrfMismatchRejected ==
    (IsExchange /\ CsrfMismatch)
        => (~last.ok /\ last.err = "CSRF token mismatch" /\ last.requests = <<>>)

C1_Witness ==
    /\ IsExchange /\ CsrfMismatch
    /\ last.self.config.urls_valid
    /\ last.err = "CSRF token mismatch"

(* C2: every token request of exchange_code_for_token is made only after   *)
(* the state argument was found equal to a CSRF token recorded in phase 1; *)
(* a manager without a recorded token sends no token request.              *)
C2_RequestOnlyAfterCsrfCheck ==
    (IsExchange /\ last.requests # <<>>)
        => (last.self.csrf_token # None /\ last.state = last.self.csrf_token)

(* C3: oauth_exchange_code_for_token called with the config of an earlier  *)
(* oauth_get_authorization_url and with the state parameter of the URL     *)
(* that call returned passes the CSRF check and sends the token request.   *)
C3_PhaseOneStateAccepted ==
    (IsCmdExchange /\ SameFlowAsPhase1 /\ last.state = cmdFlow.url.state)
        => (last.err # "CSRF token mismatch" /\ Len(last.requests) = 1)

(* C4: with PKCE enabled the code verifier of the token request is the one *)
(* whose S256 challenge was in the authorization URL returned to the       *)
(* caller in phase 1 of the flow; with PKCE disabled no verifier is sent.  *)
C4_VerifierIsPhaseOneVerifier ==
    (/\ IsExchange \/ (IsCmdExchange /\ SameFlowAsPhase1)
     /\ last.flow_url # NoUrl
     /\ last.requests # <<>>)
        => LET sent == last.requests[1].code_verifier
           IN IF last.self.config.use_pkce
              THEN sent # None /\ S256(sent) = last.flow_url.code_challenge
              ELSE sent = None

(* C5: once an exchange_code_for_token call has used the recorded CSRF     *)
(* token and verifier for a token request, a further exchange call on the  *)
(* same flow with the same state is rejected and sends no token request.   *)
C5_FlowStateSingleUse ==
    (IsExchange /\ last.used_before
     /\ last.self.csrf_token # None /\ last.state = last.self.csrf_token)
        => (~last.ok /\ last.requests = <<>>)

(***************************************************************************)
(* Properties of client_credentials_flow and refresh_token                 *)
(***************************************************************************)
(* C6: client_credentials_flow and refresh_token on a configuration with   *)
(* no client_secret return the missing-secret error and send no request.   *)
C6_MissingSecretFailsFast ==
    (last.op \in {"client_credentials_flow", "refresh_token"}
     /\ last.self.config.client_secret = None)
        => /\ ~last.ok
           /\ last.requests = <<>>
           /\ last.err = IF last.op = "refresh_token"
                         THEN "Client secret required for token refresh"
                         ELSE "Client secret required for client credentials flow"

C6_Witness ==
    /\ last.op = "client_credentials_flow"
    /\ last.self.config.client_secret = None
    /\ last.self.config.urls_valid
    /\ last.resp.ok
    /\ ~last.ok

(* C7: a successful refresh_token(r) returns a token whose refresh_token   *)
(* is present: the one of the response if it has one, otherwise r.         *)
C7_RefreshTokenAlwaysPresent ==
    (last.op = "refresh_token" /\ last.ok)
        => /\ last.token.refresh_token # None
           /\ last.token.refresh_token =
                 IF last.resp.refresh_token # None
                 THEN last.resp.refresh_token
                 ELSE last.refresh

C7_Witness ==
    /\ last.op = "refresh_token" /\ last.ok
    /\ last.resp.refresh_token = None
    /\ last.token.refresh_token = last.refresh

(***************************************************************************)
(* The Digest signer on its own                                            *)
(***************************************************************************)
NextDigest ==
    \E config \in DigestConfigs, d1 \in Nonces, d2 \in Nonces : DigestCall(config, d1, d2)

SpecDigest == InitCmd /\ [][NextDigest]_vars

Contains(parts, part) == \E i \in 1..Len(parts) : parts[i] = part

(* C9: in a Digest header generated with qop set, the nc and cnonce fields *)
(* carry the same strings that went into the response hash, also when the  *)
(* caller supplied none and defaults were generated.                       *)
C9_HeaderNonceIsHashedNonce ==
    (digestLast.called /\ digestLast.config.qop # None)
        => /\ digestLast.response =
                Md5Hex(Join(<<Md5Hex(Join(<<digestLast.config.username, digestLast.config.realm,
                                            digestLast.config.password>>, ":")),
                              digestLast.config.nonce, digestLast.nc, digestLast.cnonce,
                              digestLast.config.qop,
                              Md5Hex(Join(<<digestLast.config.method, digestLast.config.uri>>, ":"))>>,
                            ":"))
           /\ Contains(digestLast.auth_parts, "nc=" \o digestLast.nc)
           /\ Contains(digestLast.auth_parts, "cnonce=\"" \o digestLast.cnonce \o "\"")

(* C10: two generate_authorization_header calls with identical inputs,    *)
(* nc and cnonce supplied, produce the same response value.                *)
C10_DigestDeterministic ==
    (/\ digestPrev.called /\ digestLast.called
     /\ digestPrev.config = digestLast.config
     /\ digestLast.config.nc # None /\ digestLast.config.cnonce # None)
        => digestPrev.response = digestLast.response

C10_Witness ==
    /\ digestPrev.called /\ digestLast.called
    /\ digestPrev.config = digestLast.config
    /\ digestLast.config.qop # None
    /\ digestLast.config.nc # None /\ digestLast.config.cnonce # None
    /\ digestPrev.default_cnonce # digestLast.default_cnonce
    /\ digestPrev.response = digestLast.response

(***************************************************************************)
(* The callback parser on its own                                          *)
(***************************************************************************)
NextCallback == \E url \in CallbackUrls : oauth_parse_callback_url(url)

SpecCallback == InitCmd /\ [][NextCallback]_vars

HasParam(query, k) == \E i \in 1..Len(query) : query[i].key = k

(* the value of the last pair of the query whose key is k *)
LastParam(query, k) ==
    LET i == CHOOSE i \in 1..Len(query) :
                 /\ query[i].key = k
                 /\ \A j \in (i+1)..Len(query) : query[j].key # k
    IN query[i].value

(* C8: for a URL that parses, parse_callback_url returns the values of the *)
(* code and state query parameters (of the last occurrence of each) when   *)
(* both are present, and an error carrying neither value when one is       *)
(* absent.                                                                 *)
C8_CallbackCodeAndState ==
    (cbLast.called /\ cbLast.url.parses)
        => IF HasParam(cbLast.url.query, "code") /\ HasParam(cbLast.url.query, "state")
           THEN /\ cbLast.result.ok
                /\ cbLast.result.code = LastParam(cbLast.url.query, "code")
                /\ cbLast.result.state = LastParam(cbLast.url.query, "state")
           ELSE /\ ~cbLast.result.ok
                /\ cbLast.result.code = None
                /\ cbLast.result.state = None

C8_Witness ==
    /\ cbLast.called /\ cbLast.url.parses
    /\ HasParam(cbLast.url.query, "code")
    /\ ~HasParam(cbLast.url.query, "state")
    /\ cbLast.result.err = "State parameter not found in callback URL"

Quoted(name, value) == name \o "=\"" \o value \o "\""

DigestHA1(config) == Md5Hex(config.username \o ":" \o config.realm \o ":" \o config.password)
DigestHA2(config) == Md5Hex(config.method \o ":" \o config.uri)

(* C11: the Digest response is Hash(HA1:nonce:nc:cnonce:qop:HA2) exactly   *)
(* when qop is present and Hash(HA1:nonce:HA2) exactly when it is absent,  *)
(* with HA1 = Hash(username:realm:password), HA2 = Hash(method:uri) and nc *)
(* the literal "00000001" when none is supplied.                           *)
C11_DigestResponseFormula ==
    digestLast.called =>
        LET c == digestLast.config
            nonceCount == IF c.nc # None THEN c.nc ELSE "00000001"
            clientNonce == IF c.cnonce # None THEN c.cnonce ELSE digestLast.default_cnonce
            withQop == Md5Hex(DigestHA1(c) \o ":" \o c.nonce \o ":" \o nonceCount \o ":"
                              \o clientNonce \o ":" \o c.qop \o ":" \o DigestHA2(c))
            without == Md5Hex(DigestHA1(c) \o ":" \o c.nonce \o ":" \o DigestHA2(c))
        IN /\ (c.qop # None) <=> (digestLast.response = withQop)
           /\ (c.qop = None) <=> (digestLast.response = without)

C11_Witness ==
    /\ digestLast.called
    /\ digestLast.config.qop = "auth"
    /\ digestLast.config.nc = None
    /\ digestLast.config.cnonce = None
    /\ digestLast.response =
          Md5Hex("md5(user:test:pass):dcd98b:00000001:rnd2:auth:md5(GET:/dir)")

(* the fields of a Digest header, nc written by NcField *)
DigestHeaderShape(call, NcField(_)) ==
    LET c == call.config
        parts == call.auth_parts
        n == Len(parts)
        qopLen == IF c.qop # None THEN 3 ELSE 0
        opaqueLen == IF c.opaque # None THEN 1 ELSE 0
    IN /\ n = 5 + qopLen + opaqueLen
       /\ parts[1] = Quoted("username", c.username)
       /\ parts[2] = Quoted("realm", c.realm)
       /\ parts[3] = Quoted("nonce", c.nonce)
       /\ parts[4] = Quoted("uri", c.uri)
       /\ parts[5] = Quoted("response", call.response)
       /\ c.qop # None =>
             /\ parts[6] = "qop=" \o c.qop
             /\ parts[7] = NcField(IF c.nc # None THEN c.nc ELSE "00000001")
             /\ \E cn \in (Nonces \cup {c.cnonce}) \ {None} : parts[8] = Quoted("cnonce", cn)
       /\ c.opaque # None => parts[n] = Quoted("opaque", c.opaque)
       /\ call.header = "Digest " \o Join(parts, ", ")

NcQuoted(nc) == Quoted("nc", nc)
NcBare(nc) == "nc=" \o nc

Printable ==
    << " ", "!", "\"", "#", "$", "%", "&", "'", "(", ")", "*", "+",
       ",", "-", ".", "/", "0", "1", "2", "3", "4", "5", "6", "7",
       "8", "9", ":", ";", "<", "=", ">", "?", "@", "A", "B", "C",
       "D", "E", "F", "G", "H", "I", "J", "K", "L", "M", "N", "O",
       "P", "Q", "R", "S", "T", "U", "V", "W", "X", "Y", "Z", "[",
       "\\", "]", "^", "_", "grave", "a", "b", "c", "d", "e", "f", "g",
       "h", "i", "j", "k", "l", "m", "n", "o", "p", "q", "r", "s",
       "t", "u", "v", "w", "x", "y", "z", "{", "|", "}", "~" >>

(* the byte of a character *)
CodeTable ==
    [c \in {Printable[i] : i \in 1..Len(Printable)} |->
        31 + CHOOSE i \in 1..Len(Printable) : Printable[i] = c]

Code(c) == CodeTable[c]

IsPrintable(c) == c \in DOMAIN CodeTable

IsDigit(n) == 48 <= n /\ n <= 57
IsUpper(n) == 65 <= n /\ n <= 90
IsLower(n) == 97 <= n /\ n <= 122
IsAlnum(n) == IsDigit(n) \/ IsUpper(n) \/ IsLower(n)

(* the character of a byte *)
Chr(n) == Printable[n - 31]

HexDigit(n) == IF n < 10 THEN Chr(48 + n) ELSE Chr(55 + n)

(* the TLA+ string with the same characters *)
RECURSIVE Text(_)
Text(str) ==
    IF Len(str) = 0 THEN ""
    ELSE IF Len(str) = 1 THEN str[1]
    ELSE LET half == Len(str) \div 2
         IN Text(SubSeq(str, 1, half)) \o Text(SubSeq(str, half + 1, Len(str)))

(* byte-wise comparison of two strings, as Ord for String and str *)
RECURSIVE StrLess(_, _)
StrLess(a, b) ==
    IF Len(b) = 0 THEN FALSE
    ELSE IF Len(a) = 0 THEN TRUE
    ELSE IF Head(a) = Head(b) THEN StrLess(Tail(a), Tail(b))
    ELSE Code(Head(a)) < Code(Head(b))

(* the strings of a sequence one after the other *)
RECURSIVE Concat(_)
Concat(strs) ==
    IF Len(strs) = 0 THEN <<>>
    ELSE IF Len(strs) = 1 THEN strs[1]
    ELSE LET half == Len(strs) \div 2
         IN Concat(SubSeq(strs, 1, half)) \o Concat(SubSeq(strs, half + 1, Len(strs)))

RECURSIVE JoinStr(_, _)
JoinStr(strs, sep) ==
    IF Len(strs) = 0 THEN <<>>
    ELSE IF Len(strs) = 1 THEN strs[1]
    ELSE strs[1] \o sep \o JoinStr(Tail(strs), sep)

(***************************************************************************)
(* percent_encode, auth.rs:297-299: form_urlencoded::byte_serialize        *)
(***************************************************************************)
(* the bytes byte_serialize copies: * - . 0-9 A-Z _ a-z *)
FormUnreserved(n) == IsAlnum(n) \/ n \in {42, 45, 46, 95}

(* the escape of one byte *)
PercentEscape(n) == <<"%", HexDigit(n \div 16), HexDigit(n % 16)>>

(* the escape of every byte that is not copied, the space included *)
EncodeByte_SpaceEscaped(c) ==
    IF ~IsPrintable(c) THEN <<"pct(" \o c \o ")">>
    ELSE IF FormUnreserved(Code(c)) THEN <<c>>
    ELSE PercentEscape(Code(c))

(* one byte of the input; a value kept symbolic (a computed signature) is  *)
(* a single element outside Printable and stays one element                *)
EncodeByte(c) ==
    IF ~IsPrintable(c) THEN <<"pct(" \o c \o ")">>
    ELSE IF FormUnreserved(Code(c)) THEN <<c>>
    ELSE IF Code(c) = 32 THEN <<"+">>
    ELSE PercentEscape(Code(c))

percent_encode(input) == Concat([i \in 1..Len(input) |-> EncodeByte(input[i])])

MaxEncLen == 2

EncChars == {"a", "Z", "0", " ", "~", "*", "@", "-", "_", "."}
(* the inputs of test_percent_encoding, auth.rs:343-347 *)
EncTestInputs == {<<"h", "e", "l", "l", "o", " ", "w", "o", "r", "l", "d">>, <<"t", "e", "s", "t", "@", "e", "x", "a", "m", "p", "l", "e", ".", "c", "o", "m">>}
EncInputs == UNION {[1..n -> EncChars] : n \in 0..MaxEncLen} \cup EncTestInputs

EncodeCall ==
    /\ enc.phase = "input"
    /\ enc' = [phase |-> "done", input |-> enc.input, output |-> percent_encode(enc.input)]
    /\ UNCHANGED <<oauthVars, digestVars, cbVars, oauth1, aws, send, storeVars>>

InitEncode ==
    /\ manager = New(NoFlow.config)
    /\ flowUrl = NoUrl
    /\ used = FALSE
    /\ cmdFlow = NoFlow
    /\ last = NoCall
    /\ DigestIdle
    /\ CallbackIdle
    /\ enc \in {[phase |-> "input", input |-> i] : i \in EncInputs}
    /\ oauth1 = Idle
    /\ aws = Idle
    /\ send = Idle
    /\ StoreIdle

NextEncode == EncodeCall

SpecEncode == InitEncode /\ [][NextEncode]_vars

(* the encoding of RFC 3986: ALPHA DIGIT - . _ ~ copied, every other byte  *)
(* escaped, a space as %20                                                 *)
Rfc3986Unreserved(n) == IsAlnum(n) \/ n \in {45, 46, 95, 126}

Rfc3986Encode(input) ==
    Concat([i \in 1..Len(input) |->
               IF Rfc3986Unreserved(Code(input[i]))
               THEN <<input[i]>>
               ELSE PercentEscape(Code(input[i]))])

(* C14: the percent-encoding of the OAuth1 signer encodes a space as %20,  *)
(* never as +, and leaves exactly the RFC 3986 unreserved characters       *)
(* (alphanumerics and - _ . ~) unencoded.                                  *)
C14_PercentEncodeRfc3986 ==
    enc.phase = "done" => enc.output = Rfc3986Encode(enc.input)

(***************************************************************************)
(* OAuth1Config::generate_authorization_header, auth.rs:84-171             *)
(***************************************************************************)
MaxParams == 2
NumReadings == 2

(* Option<String>: the empty sequence is None, <<s>> is Some(s) *)
Some(x) == <<x>>
Absent == <<>>

Str_oauth_consumer_key == <<"o", "a", "u", "t", "h", "_", "c", "o", "n", "s", "u", "m", "e", "r", "_", "k", "e", "y">>
Str_oauth_nonce == <<"o", "a", "u", "t", "h", "_", "n", "o", "n", "c", "e">>
Str_oauth_signature_method ==
    <<"o", "a", "u", "t", "h", "_", "s", "i", "g", "n", "a", "t", "u", "r", "e", "_", "m", "e", "t", "h", "o", "d">>
Str_oauth_timestamp == <<"o", "a", "u", "t", "h", "_", "t", "i", "m", "e", "s", "t", "a", "m", "p">>
Str_oauth_version == <<"o", "a", "u", "t", "h", "_", "v", "e", "r", "s", "i", "o", "n">>
Str_oauth_token == <<"o", "a", "u", "t", "h", "_", "t", "o", "k", "e", "n">>
Str_oauth_signature == <<"o", "a", "u", "t", "h", "_", "s", "i", "g", "n", "a", "t", "u", "r", "e">>
Str_HMAC_SHA1 == <<"H", "M", "A", "C", "-", "S", "H", "A", "1">>
Str_PLAINTEXT == <<"P", "L", "A", "I", "N", "T", "E", "X", "T">>

(* OAuth1Config, auth.rs:84-91 *)
OAuth1Configs ==
    {[consumer_key |-> <<"c", "k">>, consumer_secret |-> <<"c", " ", "s">>,
      token |-> t[1], token_secret |-> t[2],
      signature_method |-> m, version |-> <<"1", ".", "0">>] :
        t \in {<<Absent, Absent>>, <<Some(<<"t", "k">>), Some(<<"t", "s">>)>>},
        m \in {Str_HMAC_SHA1, Str_PLAINTEXT}}

OAuth1Methods == {<<"G", "E", "T">>, <<"g", "e", "t">>}
OAuth1Url == <<"h", "t", "t", "p", ":", "/", "/", "h", "/", "p">>

ParamKeys == {<<"a">>, <<"b">>, <<"a", "[">>, <<"a", "Z">>, Str_oauth_nonce}
ParamValues == {<<"1">>, <<"h", " ", "w">>}
ParamEntries == [key : ParamKeys, value : ParamValues]

(* a HashMap<String, String> in the order its iteration yields the entries *)
ParamMaps ==
    {m \in UNION {[1..n -> ParamEntries] : n \in 0..MaxParams} :
        \A i, j \in 1..Len(m) : i # j => m[i].key # m[j].key}

(* values generate_nonce() can draw, as strings of bytes *)
NonceStrs == {<<"n", ToString(i)>> : i \in 1..NumNonces}

(* what SystemTime::now() can read, in seconds since the epoch; -1 stands  *)
(* for a clock set before the epoch                                        *)
ClockReadings == {86398 + i : i \in 1..NumReadings}
BeforeEpoch == -1

(* u64::to_string *)
RECURSIVE ToDigits(_)
ToDigits(n) ==
    IF n < 10 THEN <<Chr(48 + n)>> ELSE ToDigits(n \div 10) \o <<Chr(48 + (n % 10))>>

Keys(map) == {map[i].key : i \in 1..Len(map)}
Entries(map) == {map[i] : i \in 1..Len(map)}
Lookup(map, k) == (CHOOSE e \in Entries(map) : e.key = k).value

(* HashMap::insert: the value of an existing key is replaced *)
MapInsert(map, k, v) ==
    IF k \in Keys(map)
    THEN [i \in 1..Len(map) |-> IF map[i].key = k THEN [key |-> k, value |-> v] ELSE map[i]]
    ELSE Append(map, [key |-> k, value |-> v])

(* the protocol parameters with an oauth_token in every case *)
OAuth1ProtocolParams_TokenAlways(config, timestamp, nonce) ==
    << [key |-> Str_oauth_consumer_key, value |-> config.consumer_key],
       [key |-> Str_oauth_nonce, value |-> nonce],
       [key |-> Str_oauth_signature_method, value |-> config.signature_method],
       [key |-> Str_oauth_timestamp, value |-> timestamp],
       [key |-> Str_oauth_version, value |-> config.version],
       [key |-> Str_oauth_token,
        value |-> IF config.token # Absent THEN config.token[1] ELSE <<>>] >>

(* oauth_params, auth.rs:103-112 *)
OAuth1ProtocolParams(config, timestamp, nonce) ==
    LET base == << [key |-> Str_oauth_consumer_key, value |-> config.consumer_key],
                   [key |-> Str_oauth_nonce, value |-> nonce],
                   [key |-> Str_oauth_signature_method, value |-> config.signature_method],
                   [key |-> Str_oauth_timestamp, value |-> timestamp],
                   [key |-> Str_oauth_version, value |-> config.version] >>
    IN IF config.token # Absent
       THEN MapInsert(base, Str_oauth_token, config.token[1])
       ELSE base

(* all_params, auth.rs:115-118 *)
RECURSIVE OAuth1Merge(_, _)
OAuth1Merge(oauth_params, params) ==
    IF Len(params) = 0 THEN oauth_params
    ELSE OAuth1Merge(MapInsert(oauth_params, Head(params).key, Head(params).value),
                     Tail(params))

(* a stable sort of <<sort key, entry>> pairs by the bytes of the sort key *)
RECURSIVE InsertSorted(_, _)
InsertSorted(sorted, p) ==
    IF Len(sorted) = 0 THEN <<p>>
    ELSE IF StrLess(p[1], Head(sorted)[1])
    THEN <<p>> \o sorted
    ELSE <<Head(sorted)>> \o InsertSorted(Tail(sorted), p)

RECURSIVE SortPairs(_)
SortPairs(pairs) ==
    IF Len(pairs) = 0 THEN <<>>
    ELSE InsertSorted(SortPairs(SubSeq(pairs, 1, Len(pairs) - 1)), pairs[Len(pairs)])

Second(pairs) == [i \in 1..Len(pairs) |-> pairs[i][2]]

(* sorted_params.sort_by_key(|(k, _)| *k), auth.rs:153-154 *)
OAuth1SortedParams(params) ==
    Second(SortPairs([i \in 1..Len(params) |-> <<params[i].key, params[i]>>]))

(* format!("{}={}", percent_encode(k), percent_encode(v)), auth.rs:159 *)
OAuth1ParamItems(sorted_params) ==
    [i \in 1..Len(sorted_params) |->
        percent_encode(sorted_params[i].key) \o <<"=">> \o percent_encode(sorted_params[i].value)]

(* generate_signature_base_string, auth.rs:151-170 *)
generate_signature_base_string(method, url, params) ==
    LET sorted_params == OAuth1SortedParams(params)
        param_items == OAuth1ParamItems(sorted_params)
        param_string == JoinStr(param_items, <<"&">>)
    IN [sorted_params |-> sorted_params, param_items |-> param_items,
        param_string |-> param_string,
        base_string |-> percent_encode(method) \o <<"&">> \o percent_encode(url)
                        \o <<"&">> \o percent_encode(param_string)]

(* Base64 of the HMAC-SHA256 of the data under the key, kept symbolic: one *)
(* element that names both inputs                                          *)
HmacBase64(key, data) == <<"base64(hmac_sha256(" \o Text(key) \o "," \o Text(data) \o "))">>

(* the signature computed whatever the configured method *)
OAuth1Signature_AnyMethod(config, signing_key, base_string) ==
    [ok |-> TRUE, err |-> None, signature |-> HmacBase64(signing_key, base_string)]

(* auth.rs:131-138 *)
OAuth1Signature(config, signing_key, base_string) ==
    IF config.signature_method = Str_HMAC_SHA1
    THEN [ok |-> TRUE, err |-> None, signature |-> HmacBase64(signing_key, base_string)]
    ELSE [ok |-> FALSE,
          err |-> "Unsupported signature method: " \o Text(config.signature_method),
          signature |-> <<>>]

(* the header: HashMap iteration gives the parts in no fixed order, so the *)
(* set of percent-encoded (key, value) pairs is kept, auth.rs:143-148      *)
OAuth1HeaderParams(oauth_params) ==
    {[key |-> percent_encode(e.key), value |-> percent_encode(e.value)] :
        e \in Entries(oauth_params)}

(* generate_authorization_header(&self, method, url, params); now is the   *)
(* clock reading and nonce the draw of generate_nonce()                    *)
OAuth1Generate(config, method, url, params, now, nonce) ==
    IF now = BeforeEpoch
    THEN [ok |-> FALSE, err |-> "clock before epoch", header_params |-> {},
          oauth_params |-> <<>>, all_params |-> <<>>, param_items |-> <<>>,
          param_string |-> <<>>, base_string |-> <<>>, signing_key |-> <<>>,
          signature |-> <<>>]
    ELSE
    LET timestamp == ToDigits(now)
        oauth_params == OAuth1ProtocolParams(config, timestamp, nonce)
        all_params == OAuth1Merge(oauth_params, params)
        base == generate_signature_base_string(method, url, all_params)
        signing_key == percent_encode(config.consumer_secret) \o <<"&">>
                       \o percent_encode(IF config.token_secret # Absent
                                         THEN config.token_secret[1] ELSE <<>>)
        sig == OAuth1Signature(config, signing_key, base.base_string)
        signed_params == MapInsert(oauth_params, Str_oauth_signature, sig.signature)
    IN [ok |-> sig.ok, err |-> sig.err,
        header_params |-> IF sig.ok THEN OAuth1HeaderParams(signed_params) ELSE {},
        oauth_params |-> IF sig.ok THEN signed_params ELSE oauth_params,
        all_params |-> all_params, param_items |-> base.param_items,
        param_string |-> base.param_string, base_string |-> base.base_string,
        signing_key |-> signing_key, signature |-> sig.signature]

OAuth1Inputs ==
    [phase : {"input"}, config : OAuth1Configs, method : OAuth1Methods, url : {OAuth1Url},
     params : ParamMaps, now : ClockReadings \cup {BeforeEpoch}, nonce : NonceStrs]

OAuth1Call ==
    /\ oauth1.phase = "input"
    /\ oauth1' = [phase |-> "done", config |-> oauth1.config, method |-> oauth1.method,
                  url |-> oauth1.url, params |-> oauth1.params, now |-> oauth1.now,
                  nonce |-> oauth1.nonce,
                  out |-> OAuth1Generate(oauth1.config, oauth1.method, oauth1.url,
                                         oauth1.params, oauth1.now, oauth1.nonce)]
    /\ UNCHANGED <<oauthVars, digestVars, cbVars, enc, aws, send, storeVars>>

InitOAuth1 ==
    /\ manager = New(NoFlow.config)
    /\ flowUrl = NoUrl
    /\ used = FALSE
    /\ cmdFlow = NoFlow
    /\ last = NoCall
    /\ DigestIdle
    /\ CallbackIdle
    /\ enc = Idle
    /\ oauth1 \in OAuth1Inputs
    /\ aws = Idle
    /\ send = Idle
    /\ StoreIdle

NextOAuth1 == OAuth1Call

SpecOAuth1 == InitOAuth1 /\ [][NextOAuth1]_vars

OAuth1Done == oauth1.phase = "done"
OAuth1Ok == oauth1.phase = "done" /\ oauth1.out.ok

(* the entries in the byte order of their percent-encoded keys *)
SortedByEncodedKey(params) ==
    Second(SortPairs([i \in 1..Len(params) |-> <<percent_encode(params[i].key), params[i]>>]))

(* C13: the parameter string of the signature base string lists every      *)
(* (key, value) pair of the merged parameter set, each percent-encoded,    *)
(* in the byte order of the encoded keys, whatever the order in which the  *)
(* parameters were inserted.                                               *)
C13_ParamsSortedByEncodedKey ==
    (OAuth1Done /\ oauth1.now # BeforeEpoch) =>
        oauth1.out.param_string =
            JoinStr(OAuth1ParamItems(SortedByEncodedKey(oauth1.out.all_params)), <<"&">>)

(* the names of the protocol parameters of a header and their values *)
OAuth1Expected(call) ==
    LET c == call.config
        fixed == { <<Str_oauth_consumer_key, c.consumer_key>>,
                   <<Str_oauth_nonce, call.nonce>>,
                   <<Str_oauth_signature_method, c.signature_method>>,
                   <<Str_oauth_timestamp, ToDigits(call.now)>>,
                   <<Str_oauth_version, c.version>>,
                   <<Str_oauth_signature, call.out.signature>> }
    IN IF c.token # Absent THEN fixed \cup {<<Str_oauth_token, c.token[1]>>} ELSE fixed

Range(seq) == {seq[i] : i \in 1..Len(seq)}

(* C16: the OAuth1 Authorization header lists exactly oauth_consumer_key,  *)
(* oauth_nonce, oauth_signature_method, oauth_timestamp, oauth_version and *)
(* oauth_signature, plus oauth_token exactly when a token is configured,   *)
(* each with its protocol value; no caller-supplied request parameter is   *)
(* in the header, and every one of them is in the signed parameter string. *)
C16_HeaderListsProtocolParams ==
    OAuth1Ok =>
        /\ oauth1.out.header_params =
              {[key |-> percent_encode(kv[1]), value |-> percent_encode(kv[2])] :
                  kv \in OAuth1Expected(oauth1)}
        /\ \A e \in Entries(oauth1.params) :
              /\ [key |-> percent_encode(e.key), value |-> percent_encode(e.value)]
                    \notin oauth1.out.header_params
              /\ (percent_encode(e.key) \o <<"=">> \o percent_encode(e.value))
                    \in Range(oauth1.out.param_items)
        /\ oauth1.out.param_string = JoinStr(oauth1.out.param_items, <<"&">>)
        /\ oauth1.out.base_string =
              percent_encode(oauth1.method) \o <<"&">> \o percent_encode(oauth1.url)
              \o <<"&">> \o percent_encode(oauth1.out.param_string)
        /\ oauth1.out.signature = HmacBase64(oauth1.out.signing_key, oauth1.out.base_string)

C16_Witness ==
    /\ OAuth1Ok
    /\ oauth1.config.token = Absent
    /\ Len(oauth1.params) = 2
    /\ Str_oauth_nonce \in Keys(oauth1.params)
    /\ Cardinality(oauth1.out.header_params) = 6

(***************************************************************************)
(* AWS Signature Version 4, auth.rs:173-285.  A HeaderMap is the sequence  *)
(* of its (name, value) entries in iteration order: names are lower-case   *)
(* (HeaderName normalises them), the values of one name are adjacent and   *)
(* in insertion order.  A value is a byte string without control bytes; it *)
(* may hold bytes >= 0x80, which to_str() rejects.                         *)
(***************************************************************************)
MaxHeaders == 2

LF == "\n"
ObsText == "0xE9"

Str_x_amz_date == <<"x", "-", "a", "m", "z", "-", "d", "a", "t", "e">>
Str_x_amz_security_token == <<"x", "-", "a", "m", "z", "-", "s", "e", "c", "u", "r", "i", "t", "y", "-", "t", "o", "k", "e", "n">>
Str_authorization == <<"a", "u", "t", "h", "o", "r", "i", "z", "a", "t", "i", "o", "n">>
Str_AWS4_HMAC_SHA256 == <<"A", "W", "S", "4", "-", "H", "M", "A", "C", "-", "S", "H", "A", "2", "5", "6">>
Str_aws4_request == <<"a", "w", "s", "4", "_", "r", "e", "q", "u", "e", "s", "t">>
Str_AWS4 == <<"A", "W", "S", "4">>

ToLowerChar(c) == IF IsPrintable(c) /\ IsUpper(Code(c)) THEN Chr(Code(c) + 32) ELSE c
ToLower(str) == [i \in 1..Len(str) |-> ToLowerChar(str[i])]

(* HeaderValue::from_str accepts every byte but the control bytes *)
HeaderValueFromStr(str) == \A i \in 1..Len(str) : str[i] # LF

(* HeaderValue::to_str succeeds on visible ASCII only *)
ValueToStr(value) ==
    IF \A i \in 1..Len(value) : value[i] # ObsText /\ value[i] # LF
    THEN Some(value) ELSE Absent

UnwrapOr(opt, default) == IF opt = Absent THEN default ELSE opt[1]

IsSpace(c) == c = " " \/ c = LF

RECURSIVE TrimStart(_)
TrimStart(str) ==
    IF Len(str) = 0 THEN str
    ELSE IF IsSpace(Head(str)) THEN TrimStart(Tail(str)) ELSE str

RECURSIVE TrimEnd(_)
TrimEnd(str) ==
    IF Len(str) = 0 THEN str
    ELSE IF IsSpace(str[Len(str)]) THEN TrimEnd(SubSeq(str, 1, Len(str) - 1)) ELSE str

Trim(str) == TrimEnd(TrimStart(str))

HeaderNames(headers) == {headers[i].name : i \in 1..Len(headers)}

HeaderValues(headers, name) ==
    LET hit == SelectSeq(headers, LAMBDA e : e.name = name)
    IN [i \in 1..Len(hit) |-> hit[i].value]

(* HeaderMap::keys: every name once, in entry order *)
HeaderKeys(headers) ==
    LET idx == SelectSeq([i \in 1..Len(headers) |-> i],
                         LAMBDA i : \A j \in 1..(i - 1) : headers[j].name # headers[i].name)
    IN [k \in 1..Len(idx) |-> headers[idx[k]].name]

(* HeaderMap::append: a further value of the name, after its other values *)
HeaderAppend(headers, name, value) ==
    IF name \in HeaderNames(headers)
    THEN LET lastIdx == CHOOSE i \in 1..Len(headers) :
                          /\ headers[i].name = name
                          /\ \A j \in (i + 1)..Len(headers) : headers[j].name # name
         IN SubSeq(headers, 1, lastIdx) \o <<[name |-> name, value |-> value]>>
            \o SubSeq(headers, lastIdx + 1, Len(headers))
    ELSE Append(headers, [name |-> name, value |-> value])

HeaderInsert_Append(headers, name, value) ==
    HeaderAppend(headers, name, value)

(* HeaderMap::insert: the name keeps exactly this value *)
HeaderInsert(headers, name, value) ==
    IF name \in HeaderNames(headers)
    THEN LET first == CHOOSE i \in 1..Len(headers) :
                        /\ headers[i].name = name
                        /\ \A j \in 1..(i - 1) : headers[j].name # name
             idx == SelectSeq([i \in 1..Len(headers) |-> i],
                              LAMBDA i : i = first \/ headers[i].name # name)
         IN [k \in 1..Len(idx) |->
                IF idx[k] = first THEN [name |-> name, value |-> value]
                ELSE headers[idx[k]]]
    ELSE Append(headers, [name |-> name, value |-> value])

RawHeaders ==
    { [name |-> <<"X", "-", "A">>, value |-> <<"v">>],
      [name |-> <<"x", "-", "a">>, value |-> <<" ", "w", " ">>],
      [name |-> <<"B">>, value |-> <<"c", "a", "f", ObsText>>],
      [name |-> <<"x", "-", "a", "m", "z", "-", "d", "a", "t", "e">>, value |-> <<"o", "l", "d">>],
      [name |-> <<"x", "-", "a", "m", "z", "-", "s", "e", "c", "u", "r", "i", "t", "y", "-", "t", "o", "k", "e", "n">>, value |-> <<"o", "l", "d">>],
      [name |-> <<"A", "u", "t", "h", "o", "r", "i", "z", "a", "t", "i", "o", "n">>, value |-> <<"B", "a", "s", "i", "c">>] }

RawHeaderSeqs == UNION {[1..n -> RawHeaders] : n \in 0..MaxHeaders}

RECURSIVE BuildHeaders(_)
BuildHeaders(raw) ==
    IF Len(raw) = 0 THEN <<>>
    ELSE HeaderAppend(BuildHeaders(SubSeq(raw, 1, Len(raw) - 1)),
                      ToLower(raw[Len(raw)].name), raw[Len(raw)].value)

AwsHeaderMaps == {BuildHeaders(raw) : raw \in RawHeaderSeqs}

AwsConfigs ==
    [access_key : {<<"A", "K">>}, secret_key : {<<"s", "k">>}, region : {<<"u", "s">>}, service : {<<"s", "3">>},
     session_token : {Absent, Some(<<"t", "o", "k">>), Some(<<"t", "o", LF, "k">>)}]

(* a URL with what Url::parse makes of it *)
AwsUrls ==
    { [text |-> <<"h", "t", "t", "p", "s", ":", "/", "/", "h", "/", "p", "?", "q", "=", "1">>, valid |-> TRUE, path |-> <<"/", "p">>, query |-> Some(<<"q", "=", "1">>)],
      [text |-> <<"h", "/", "p">>, valid |-> FALSE, path |-> <<>>, query |-> Absent] }

AwsBody == <<"{", "}">>

(* the clock as read at the start of the call and as it stands at its end *)
AwsClocks ==
    {c \in ClockReadings \X ClockReadings : c[1] <= c[2]}
        \cup {<<BeforeEpoch, BeforeEpoch>>}

Pad2(n) == <<Chr(48 + (n \div 10)), Chr(48 + (n % 10))>>
Pad4(n) == Pad2(n \div 100) \o Pad2(n % 100)

(* chrono::DateTime::from_timestamp: the civil date and time of a second count *)
CivilFromSecs(secs) ==
    LET days == secs \div 86400
        rem == secs % 86400
        z == days + 719468
        era == z \div 146097
        doe == z - era * 146097
        yoe == (doe - doe \div 1460 + doe \div 36524 - doe \div 146096) \div 365
        doy == doe - (365 * yoe + yoe \div 4 - yoe \div 100)
        mp == (5 * doy + 2) \div 153
        d == doy - (153 * mp + 2) \div 5 + 1
        m == IF mp < 10 THEN mp + 3 ELSE mp - 9
        y == yoe + era * 400 + (IF m <= 2 THEN 1 ELSE 0)
    IN [year |-> y, month |-> m, day |-> d,
        hour |-> rem \div 3600, minute |-> (rem % 3600) \div 60, second |-> rem % 60]

FormatDateStamp(secs) ==
    LET date == CivilFromSecs(secs)
    IN Pad4(date.year) \o Pad2(date.month) \o Pad2(date.day)

FormatAmzDate(secs) ==
    LET date == CivilFromSecs(secs)
    IN FormatDateStamp(secs) \o <<"T">> \o Pad2(date.hour) \o Pad2(date.minute)
       \o Pad2(date.second) \o <<"Z">>

(* let now = SystemTime::now(), auth.rs:191: the one reading of the clock *)
AwsNow(clock) == clock[1]

AwsAmzDate(clock) == FormatAmzDate(AwsNow(clock))

AwsDateStamp_Reread(clock) == FormatDateStamp(clock[2])

AwsDateStamp(clock) == FormatDateStamp(AwsNow(clock))

Sha256Hex(data) == <<"sha256(" \o Text(data) \o ")">>

hmac_sha256(key, data) == <<"hmac(" \o Text(key) \o "," \o Text(data) \o ")">>

HexEncode(bytes) == <<"hex(" \o Text(bytes) \o ")">>

SortStrs(strs) == Second(SortPairs([i \in 1..Len(strs) |-> <<strs[i], strs[i]>>]))

get_signed_headers_Unsorted(headers) ==
    LET header_names == [i \in 1..Len(HeaderKeys(headers)) |-> ToLower(HeaderKeys(headers)[i])]
    IN JoinStr(header_names, <<";">>)

get_signed_headers(headers) ==
    LET header_names == [i \in 1..Len(HeaderKeys(headers)) |-> ToLower(HeaderKeys(headers)[i])]
    IN JoinStr(SortStrs(header_names), <<";">>)

create_canonical_request(method, url, headers, body) ==
    LET pairs == [i \in 1..Len(headers) |->
                    <<ToLower(headers[i].name),
                      Trim(UnwrapOr(ValueToStr(headers[i].value), <<>>))>>]
        header_vec == Second(SortPairs([i \in 1..Len(pairs) |-> <<pairs[i][1], pairs[i]>>]))
        canonical_headers ==
            JoinStr([i \in 1..Len(header_vec) |->
                        header_vec[i][1] \o <<":">> \o header_vec[i][2]], <<LF>>) \o <<LF>>
        signed_headers == get_signed_headers(headers)
        payload_hash == Sha256Hex(body)
    IN [ok |-> url.valid,
        header_vec |-> header_vec,
        canonical_headers |-> canonical_headers,
        signed_headers |-> signed_headers,
        text |-> JoinStr(<<method, url.path, UnwrapOr(url.query, <<>>), canonical_headers,
                           signed_headers, payload_hash>>, <<LF>>)]

create_string_to_sign(config, amz_date, date_stamp, canonical_request) ==
    LET credential_scope == JoinStr(<<date_stamp, config.region, config.service,
                                      Str_aws4_request>>, <<"/">>)
        hashed_canonical_request == Sha256Hex(canonical_request)
    IN [amz_date |-> amz_date,
        credential_scope |-> credential_scope,
        text |-> JoinStr(<<Str_AWS4_HMAC_SHA256, amz_date, credential_scope,
                           hashed_canonical_request>>, <<LF>>)]

calculate_signature(config, date_stamp, string_to_sign) ==
    LET k_date == hmac_sha256(Str_AWS4 \o config.secret_key, date_stamp)
        k_region == hmac_sha256(k_date, config.region)
        k_service == hmac_sha256(k_region, config.service)
        k_signing == hmac_sha256(k_service, Str_aws4_request)
        signature == hmac_sha256(k_signing, string_to_sign)
    IN [k_date |-> k_date, signature |-> HexEncode(signature)]

AwsCredential(config, date_stamp) ==
    JoinStr(<<config.access_key, date_stamp, config.region, config.service,
              Str_aws4_request>>, <<"/">>)

AwsAuthorization(credential, signed_headers, signature) ==
    Str_AWS4_HMAC_SHA256 \o <<" ", "C", "r", "e", "d", "e", "n", "t", "i", "a", "l", "=">> \o credential
    \o <<",", " ", "S", "i", "g", "n", "e", "d", "H", "e", "a", "d", "e", "r", "s", "=">> \o signed_headers \o <<",", " ", "S", "i", "g", "n", "a", "t", "u", "r", "e", "=">> \o signature

NoCanonical ==
    [ok |-> FALSE, header_vec |-> <<>>, canonical_headers |-> <<>>,
     signed_headers |-> <<>>, text |-> <<>>]

AwsFail(err) ==
    [ok |-> FALSE, err |-> err, headers |-> <<>>, amz_date |-> <<>>,
     canonical |-> NoCanonical, string_to_sign |-> <<>>, credential_scope |-> <<>>,
     k_date |-> <<>>, credential |-> <<>>, signed_headers |-> <<>>,
     signature |-> <<>>, authorization |-> <<>>]

(* AwsSignatureConfig::generate_authorization_header, auth.rs:184-228 *)
AwsGenerate(config, method, url, input, body, clock) ==
    IF AwsNow(clock) < 0 THEN AwsFail("second time provided was later than self")
    ELSE
    LET amz_date == AwsAmzDate(clock)
        date_stamp == AwsDateStamp(clock)
        dated == HeaderInsert(input, Str_x_amz_date, amz_date)
    IN
    IF config.session_token # Absent /\ ~HeaderValueFromStr(config.session_token[1])
    THEN AwsFail("failed to parse header value")
    ELSE
    LET headers == IF config.session_token # Absent
                   THEN HeaderInsert(dated, Str_x_amz_security_token, config.session_token[1])
                   ELSE dated
        canonical == create_canonical_request(method, url, headers, body)
    IN
    IF ~canonical.ok THEN AwsFail("relative URL without a base")
    ELSE
    LET sts == create_string_to_sign(config, amz_date, date_stamp, canonical.text)
        sig == calculate_signature(config, date_stamp, sts.text)
        signed_headers == get_signed_headers(headers)
        credential == AwsCredential(config, date_stamp)
        authorization == AwsAuthorization(credential, signed_headers, sig.signature)
    IN [ok |-> TRUE, err |-> "",
        headers |-> HeaderInsert(headers, Str_authorization, authorization),
        amz_date |-> amz_date, canonical |-> canonical, string_to_sign |-> sts.text,
        credential_scope |-> sts.credential_scope, k_date |-> sig.k_date,
        credential |-> credential, signed_headers |-> signed_headers,
        signature |-> sig.signature, authorization |-> authorization]

AwsMethod == <<"G", "E", "T">>

AwsInputs ==
    [phase : {"input"}, config : AwsConfigs, url : AwsUrls, headers : AwsHeaderMaps,
     clock : AwsClocks]

AwsCall ==
    /\ aws.phase = "input"
    /\ aws' = [phase |-> "done", config |-> aws.config, url |-> aws.url,
               headers |-> aws.headers, clock |-> aws.clock,
               out |-> AwsGenerate(aws.config, AwsMethod, aws.url, aws.headers,
                                   AwsBody, aws.clock)]
    /\ UNCHANGED <<oauthVars, digestVars, cbVars, enc, oauth1, send, storeVars>>

InitAws ==
    /\ manager = New(NoFlow.config)
    /\ flowUrl = NoUrl
    /\ used = FALSE
    /\ cmdFlow = NoFlow
    /\ last = NoCall
    /\ DigestIdle
    /\ CallbackIdle
    /\ enc = Idle
    /\ oauth1 = Idle
    /\ aws \in AwsInputs
    /\ send = Idle
    /\ StoreIdle

NextAws == AwsCall

SpecAws == InitAws /\ [][NextAws]_vars

AwsDone == aws.phase = "done"
AwsOk == aws.phase = "done" /\ aws.out.ok

(* the strictly increasing sequence of the strings of a set *)
RECURSIVE SortedSeqOf(_)
SortedSeqOf(set) ==
    IF set = {} THEN <<>>
    ELSE LET least == CHOOSE s \in set : \A t \in set \ {s} : StrLess(s, t)
         IN <<least>> \o SortedSeqOf(set \ {least})

RenderedNames(out) == {out.canonical.header_vec[i][1] : i \in 1..Len(out.canonical.header_vec)}

(* C17: the SignedHeaders value of the emitted Authorization header equals  *)
(* the signed-header list of the canonical request, and both are the        *)
(* semicolon-joined, sorted, lower-cased names of exactly the headers       *)
(* rendered in the canonical headers block, each name once.                 *)
C17_SignedHeadersConsistent ==
    AwsOk =>
        /\ HeaderValues(aws.out.headers, Str_authorization) =
              <<AwsAuthorization(aws.out.credential, aws.out.canonical.signed_headers,
                                 aws.out.signature)>>
        /\ aws.out.canonical.signed_headers = JoinStr(SortedSeqOf(RenderedNames(aws.out)), <<";">>)
        /\ \A n \in RenderedNames(aws.out) : n = ToLower(n)
        /\ aws.out.canonical.canonical_headers =
              Concat([i \in 1..Len(aws.out.canonical.header_vec) |->
                         aws.out.canonical.header_vec[i][1] \o <<":">>
                         \o aws.out.canonical.header_vec[i][2] \o <<LF>>])

C17_Witness ==
    /\ AwsOk
    /\ Len(HeaderValues(aws.headers, <<"x", "-", "a">>)) = 2
    /\ aws.out.canonical.signed_headers = <<"x", "-", "a", ";", "x", "-", "a", "m", "z", "-", "d", "a", "t", "e">>

C17_WitnessPresigned ==
    /\ AwsOk
    /\ HeaderNames(aws.headers) = {Str_x_amz_date, Str_authorization}

(* C18: x-amz-date, the amzDate line of the string to sign and the date     *)
(* stamp of the credential scope, of the signing-key derivation and of the  *)
(* Credential field all come from one reading of the clock, also when the   *)
(* clock moves on during the call.                                          *)
C18_SingleTimestamp ==
    AwsOk =>
        \E t \in {aws.clock[1], aws.clock[2]} :
            /\ HeaderValues(aws.out.headers, Str_x_amz_date) = <<FormatAmzDate(t)>>
            /\ aws.out.string_to_sign =
                  JoinStr(<<Str_AWS4_HMAC_SHA256, FormatAmzDate(t),
                            JoinStr(<<FormatDateStamp(t), aws.config.region,
                                      aws.config.service, Str_aws4_request>>, <<"/">>),
                            Sha256Hex(aws.out.canonical.text)>>, <<LF>>)
            /\ aws.out.k_date =
                  hmac_sha256(Str_AWS4 \o aws.config.secret_key, FormatDateStamp(t))
            /\ aws.out.credential =
                  JoinStr(<<aws.config.access_key, FormatDateStamp(t), aws.config.region,
                            aws.config.service, Str_aws4_request>>, <<"/">>)
            /\ aws.out.authorization =
                  AwsAuthorization(aws.out.credential, aws.out.signed_headers,
                                   aws.out.signature)

C18_Witness ==
    /\ AwsOk
    /\ aws.clock = <<86399, 86400>>
    /\ HeaderValues(aws.out.headers, Str_x_amz_date) = <<<<"1", "9", "7", "0", "0", "1", "0", "1", "T", "2", "3", "5", "9", "5", "9", "Z">>>>
    /\ FormatDateStamp(aws.clock[2]) = <<"1", "9", "7", "0", "0", "1", "0", "2">>

AwsManaged(config) ==
    {Str_x_amz_date, Str_authorization} \cup
    (IF config.session_token # Absent THEN {Str_x_amz_security_token} ELSE {})

(* C19: the returned header set holds every input header with its values    *)
(* unchanged except under the names x-amz-date, x-amz-security-token and    *)
(* authorization; x-amz-date and authorization are always set, and          *)
(* x-amz-security-token exactly when a session token is configured; no      *)
(* other header is added, and the input header map is left as it was.       *)
C19_ReturnedHeaderSet ==
    [][(aws.phase = "input" /\ aws'.phase = "done" /\ aws'.out.ok) =>
          /\ aws'.headers = aws.headers
          /\ HeaderNames(aws'.out.headers) =
                HeaderNames(aws.headers) \cup AwsManaged(aws.config)
          /\ \A n \in HeaderNames(aws.headers) \ AwsManaged(aws.config) :
                HeaderValues(aws'.out.headers, n) = HeaderValues(aws.headers, n)
          /\ HeaderValues(aws'.out.headers, Str_x_amz_date) = <<aws'.out.amz_date>>
          /\ HeaderValues(aws'.out.headers, Str_authorization) = <<aws'.out.authorization>>
          /\ aws.config.session_token # Absent =>
                HeaderValues(aws'.out.headers, Str_x_amz_security_token) =
                   <<aws.config.session_token[1]>>
      ]_vars

C19_Witness ==
    /\ AwsOk
    /\ aws.config.session_token = Absent
    /\ HeaderValues(aws.headers, Str_x_amz_date) = <<<<"o", "l", "d">>>>
    /\ HeaderValues(aws.headers, Str_x_amz_security_token) = <<<<"o", "l", "d">>>>
    /\ HeaderValues(aws.out.headers, Str_x_amz_security_token) = <<<<"o", "l", "d">>>>
    /\ Len(aws.out.headers) = 3

(* C20: when a header passed to the signer has a value that is not a valid  *)
(* header-value string, the call returns an encoding error and no signed    *)
(* header set.                                                              *)
C20_InvalidValueIsEncodingError ==
    (AwsDone /\ \E i \in 1..Len(aws.headers) : ValueToStr(aws.headers[i].value) = Absent)
        => ~aws.out.ok

(***************************************************************************)
(* The send_api_request command, lib.rs:41-255.  The database, the cache   *)
(* and the transport are the environment of the call; the strings of these *)
(* requests hold no {{variable}} placeholder, so interpolation returns its *)
(* input whenever the database answers.                                    *)
(***************************************************************************)
ToUpperChar(c) == IF IsPrintable(c) /\ IsLower(Code(c)) THEN Chr(Code(c) - 32) ELSE c
ToUpper(str) == [i \in 1..Len(str) |-> ToUpperChar(str[i])]

(* the match on request.method.to_uppercase(), lib.rs:82-91 *)
SupportedMethods == {<<"G", "E", "T">>, <<"P", "O", "S", "T">>, <<"P", "U", "T">>, <<"D", "E", "L", "E", "T", "E">>, <<"P", "A", "T", "C", "H">>, <<"H", "E", "A", "D">>, <<"O", "P", "T", "I", "O", "N", "S">>}

SendMethods == {<<"G", "E", "T">>, <<"g", "e", "t">>, <<"T", "R", "A", "C", "E">>}
SendUrl == <<"h", "t", "t", "p", "s", ":", "/", "/", "h", "/", "p", "?", "q", "=", "1">>
SendHeaderMaps == {<<>>, <<[key |-> <<"X", "-", "A">>, value |-> <<"v">>]>>}
SendParamMaps == {<<>>, <<[key |-> <<"a">>, value |-> <<"1">>]>>}

Malformed == [json |-> "malformed"]
FieldPayloads(names) == {[json |-> "ok", fields |-> f, in_ |-> "header"] : f \in SUBSET names}

(* the auth_data a request of each auth_type can carry *)
AuthPayloads(auth_type) ==
    {Malformed} \cup
    CASE auth_type = "basic" -> FieldPayloads({"username", "password"})
      [] auth_type = "bearer" -> FieldPayloads({"token"})
      [] auth_type = "api-key" ->
            {p \in FieldPayloads({"key", "value", "in"}) : Cardinality(p.fields) >= 2}
            \cup {[json |-> "ok", fields |-> {"key", "value", "in"}, in_ |-> i] :
                     i \in {"query", "cookie"}}
      [] auth_type = "oauth2" -> FieldPayloads({"access_token"})
      [] auth_type = "digest" ->
            {[json |-> "ok", config |-> c] :
                c \in {d \in DigestConfigs :
                          d.password = "pass" /\ d.nc = None /\ d.opaque = None}}
      [] auth_type = "oauth1" -> {[json |-> "ok", config |-> c] : c \in OAuth1Configs}
      [] auth_type = "aws-signature" -> {[json |-> "ok", config |-> c] : c \in AwsConfigs}
      [] OTHER -> {}

AuthTypes ==
    {"basic", "bearer", "api-key", "oauth2", "digest", "oauth1", "aws-signature", "ntlm"}

(* ApiRequest, lib.rs:16-29 *)
SendRequests ==
    {[method |-> m, url |-> SendUrl, params |-> <<>>, headers |-> hm, body |-> b,
      auth_type |-> Absent, auth_data |-> Absent,
      use_cache |-> c[1], cache_duration |-> c[2]] :
        m \in SendMethods, hm \in SendHeaderMaps, b \in {Absent, Some(<<"{", "}">>)},
        c \in {<<Absent, Absent>>, <<Some(FALSE), Some(60)>>, <<Some(TRUE), Absent>>,
               <<Some(TRUE), Some(60)>>}}
    \cup
    UNION {
      {[method |-> m, url |-> SendUrl,
        params |-> IF t = "oauth1" THEN pm ELSE <<>>,
        headers |-> IF t = "aws-signature" THEN hm ELSE <<>>,
        body |-> Absent, auth_type |-> Some(t), auth_data |-> d,
        use_cache |-> c, cache_duration |-> Absent] :
          m \in SendMethods, pm \in SendParamMaps, hm \in SendHeaderMaps,
          d \in {Absent} \cup {Some(p) : p \in AuthPayloads(t)},
          c \in {Absent, Some(TRUE)}} : t \in AuthTypes}

(* what the call meets: the database, the cache lookup, the transport, the *)
(* clock and the random draws                                              *)
SendEnvs(request) ==
    [db : {"uninitialized", "failing", "ready"},
     cached : IF request.use_cache = Some(TRUE) THEN {"miss", "hit", "corrupt"} ELSE {"miss"},
     transport_ok : BOOLEAN,
     now : IF request.auth_type \in {Some("oauth1"), Some("aws-signature")}
           THEN ClockReadings \cup {BeforeEpoch} ELSE {BeforeEpoch},
     d1 : IF request.auth_type = Some("digest") THEN Nonces ELSE {"rnd1"},
     d2 : IF request.auth_type = Some("digest") THEN Nonces ELSE {"rnd1"},
     nonce : {CHOOSE n \in NonceStrs : TRUE}]

SendInputs ==
    UNION {[phase : {"input"}, request : {r}, env : SendEnvs(r)] : r \in SendRequests}

NoAuth ==
    [ok |-> TRUE, err |-> "", handlers |-> <<>>, headers |-> <<>>, query |-> <<>>,
     signer |-> Idle]

AuthErr(tag, err, signer) ==
    [ok |-> FALSE, err |-> err, handlers |-> <<tag>>, headers |-> <<>>, query |-> <<>>,
     signer |-> signer]

AuthHeaders(tag, headers, signer) ==
    [ok |-> TRUE, err |-> "", handlers |-> <<tag>>, headers |-> headers, query |-> <<>>,
     signer |-> signer]

AuthorizationHeader(scheme, value) ==
    <<[name |-> "authorization", scheme |-> scheme, value |-> value]>>

(* lib.rs:103-116 *)
BasicAuth(payload) ==
    IF "username" \notin payload.fields
    THEN AuthErr("basic", "Username not found in auth_data", Idle)
    ELSE IF "password" \notin payload.fields
    THEN AuthErr("basic", "Password not found in auth_data", Idle)
    ELSE AuthHeaders("basic", AuthorizationHeader("Basic", "username:password"), Idle)

(* lib.rs:117-125 *)
BearerAuth(payload) ==
    IF "token" \notin payload.fields
    THEN AuthErr("bearer", "Token not found in auth_data", Idle)
    ELSE AuthHeaders("bearer", AuthorizationHeader("Bearer", "token"), Idle)

(* lib.rs:126-142 *)
ApiKeyAuth(payload) ==
    IF "key" \notin payload.fields THEN AuthErr("api-key", "Key not found in auth_data", Idle)
    ELSE IF "value" \notin payload.fields
    THEN AuthErr("api-key", "Value not found in auth_data", Idle)
    ELSE IF "in" \notin payload.fields
    THEN AuthErr("api-key", "In not found in auth_data", Idle)
    ELSE IF payload.in_ = "header"
    THEN AuthHeaders("api-key", <<[name |-> "key", scheme |-> "", value |-> "value"]>>, Idle)
    ELSE IF payload.in_ = "query"
    THEN [AuthHeaders("api-key", <<>>, Idle) EXCEPT !.query = <<"key=value">>]
    ELSE AuthHeaders("api-key", <<>>, Idle)

(* lib.rs:143-152 *)
OAuth2Auth(payload) ==
    IF "access_token" \notin payload.fields
    THEN AuthErr("oauth2", "Access token not found in auth_data", Idle)
    ELSE AuthHeaders("oauth2", AuthorizationHeader("Bearer", "access_token"), Idle)

(* lib.rs:154-163 *)
DigestAttach(signed) ==
    AuthHeaders("digest", AuthorizationHeader("Digest", signed.header), signed)

DigestAuth(payload, env) == DigestAttach(DigestGenerate(payload.config, env.d1, env.d2))

(* lib.rs:164-176 *)
OAuth1Attach(signed) ==
    IF signed.ok
    THEN AuthHeaders("oauth1", AuthorizationHeader("OAuth", signed.header_params), signed)
    ELSE AuthErr("oauth1", signed.err, signed)

OAuth1Auth(payload, request, url, env) ==
    OAuth1Attach(OAuth1Generate(payload.config, request.method, url, request.params,
                                env.now, env.nonce))

(* the HeaderMap built from request.headers, lib.rs:184-191 *)
RECURSIVE SendHeaderMap(_)
SendHeaderMap(headers) ==
    IF Len(headers) = 0 THEN <<>>
    ELSE HeaderInsert(SendHeaderMap(SubSeq(headers, 1, Len(headers) - 1)),
                      ToLower(headers[Len(headers)].key), headers[Len(headers)].value)

(* lib.rs:177-208 *)
AwsAttach(signed) ==
    IF signed.ok
    THEN AuthHeaders("aws-signature",
                     [i \in 1..Len(signed.headers) |->
                         [name |-> Text(signed.headers[i].name), scheme |-> "",
                          value |-> signed.headers[i].value]],
                     signed)
    ELSE AuthErr("aws-signature", signed.err, signed)

AwsAuth(payload, request, url, env) ==
    AwsAttach(AwsGenerate(payload.config, request.method,
                          [text |-> url, valid |-> TRUE, path |-> <<"/", "p">>,
                           query |-> Some(<<"q", "=", "1">>)],
                          SendHeaderMap(request.headers), UnwrapOr(request.body, <<>>),
                          <<env.now, env.now>>))

(* the match on auth_type, lib.rs:101-211 *)
SendAuth(request, url, env) ==
    IF request.auth_type = Absent \/ request.auth_data = Absent THEN NoAuth
    ELSE LET tag == request.auth_type[1]
             payload == request.auth_data[1]
         IN IF tag \notin {"basic", "bearer", "api-key", "oauth2", "digest", "oauth1",
                           "aws-signature"}
            THEN NoAuth
            ELSE IF payload.json # "ok" THEN AuthErr(tag, "serde_json error", Idle)
            ELSE CASE tag = "basic" -> BasicAuth(payload)
                   [] tag = "bearer" -> BearerAuth(payload)
                   [] tag = "api-key" -> ApiKeyAuth(payload)
                   [] tag = "oauth2" -> OAuth2Auth(payload)
                   [] tag = "digest" -> DigestAuth(payload, env)
                   [] tag = "oauth1" -> OAuth1Auth(payload, request, url, env)
                   [] tag = "aws-signature" -> AwsAuth(payload, request, url, env)

SendErr(err, auth) ==
    [ok |-> FALSE, err |-> err, from_cache |-> FALSE, handlers |-> auth.handlers,
     signer |-> auth.signer, auth_ok |-> auth.ok, auth_err |-> auth.err,
     headers |-> <<>>, query |-> <<>>, sent |-> FALSE, stored |-> FALSE]

(* a handler's error dropped and the request sent without its header *)
SendBuilt_ErrorIgnored(request, env, auth) ==
    [ok |-> env.transport_ok, err |-> IF env.transport_ok THEN "" ELSE "transport error",
     from_cache |-> FALSE, handlers |-> auth.handlers, signer |-> auth.signer,
     auth_ok |-> auth.ok, auth_err |-> auth.err,
     headers |-> auth.headers, query |-> auth.query, sent |-> TRUE, stored |-> FALSE]

(* the request headers, the body, send() and the cache store, lib.rs:96-99, 213-254 *)
SendBuilt(request, env, auth) ==
    LET own == [i \in 1..Len(request.headers) |->
                   [name |-> Text(ToLower(request.headers[i].key)), scheme |-> "",
                    value |-> request.headers[i].value]]
    IN
    IF ~auth.ok THEN SendErr(auth.err, auth)
    ELSE IF ~env.transport_ok
    THEN [SendErr("transport error", auth) EXCEPT
             !.sent = TRUE, !.headers = own \o auth.headers, !.query = auth.query]
    ELSE [ok |-> TRUE, err |-> "", from_cache |-> FALSE, handlers |-> auth.handlers,
          signer |-> auth.signer, auth_ok |-> TRUE, auth_err |-> "", headers |-> own \o auth.headers, query |-> auth.query,
          sent |-> TRUE,
          stored |-> request.use_cache = Some(TRUE) /\ request.cache_duration # Absent]

(* the whole command, lib.rs:41-255 *)
send_api_request(request, env) ==
    IF env.db = "uninitialized" THEN SendErr("Database not initialized", NoAuth)
    ELSE IF env.db = "failing" THEN SendErr("database error", NoAuth)
    ELSE
    LET interpolated_url == request.url
        use_cache == request.use_cache = Some(TRUE)
    IN
    IF use_cache /\ env.cached = "corrupt" THEN SendErr("serde_json error", NoAuth)
    ELSE IF use_cache /\ env.cached = "hit"
    THEN [ok |-> TRUE, err |-> "", from_cache |-> TRUE, handlers |-> <<>>, signer |-> Idle,
          auth_ok |-> TRUE, auth_err |-> "", headers |-> <<>>, query |-> <<>>, sent |-> FALSE, stored |-> FALSE]
    ELSE IF ToUpper(request.method) \notin SupportedMethods
    THEN SendErr("Unsupported HTTP method", NoAuth)
    ELSE
    SendBuilt(request, env, SendAuth(request, interpolated_url, env))

SendCall ==
    /\ send.phase = "input"
    /\ send' = [phase |-> "done", request |-> send.request, env |-> send.env,
                out |-> send_api_request(send.request, send.env)]
    /\ UNCHANGED <<oauthVars, digestVars, cbVars, enc, oauth1, aws, storeVars>>

InitSend ==
    /\ manager = New(NoFlow.config)
    /\ flowUrl = NoUrl
    /\ used = FALSE
    /\ cmdFlow = NoFlow
    /\ last = NoCall
    /\ DigestIdle
    /\ CallbackIdle
    /\ enc = Idle
    /\ oauth1 = Idle
    /\ aws = Idle
    /\ send \in SendInputs
    /\ StoreIdle

NextSend == SendCall

SpecSend == InitSend /\ [][NextSend]_vars

SendDone == send.phase = "done"

OAuth1SignerRan ==
    SendDone /\ send.out.handlers = <<"oauth1">> /\ send.out.signer # Idle

(* C15: when the OAuth1 signer is asked for a signature_method other than   *)
(* the supported HMAC one, it returns an error and no header value; the     *)
(* send_api_request command returns that error and sends no HTTP request.   *)
C15_UnsupportedMethodSurfaced ==
    (/\ OAuth1SignerRan
     /\ send.request.auth_data[1].config.signature_method # Str_HMAC_SHA1)
    =>
        /\ ~send.out.signer.ok
        /\ send.out.signer.header_params = {}
        /\ ~send.out.ok
        /\ send.out.err = send.out.signer.err
        /\ send.env.now # BeforeEpoch =>
              send.out.err = "Unsupported signature method: PLAINTEXT"
        /\ ~send.out.sent
        /\ send.out.headers = <<>>

C15_Witness ==
    /\ OAuth1SignerRan
    /\ send.request.auth_data[1].config.signature_method = Str_PLAINTEXT
    /\ send.env.now # BeforeEpoch
    /\ send.env.transport_ok
    /\ send.out.err = "Unsupported signature method: PLAINTEXT"
    /\ ~send.out.sent

HandlerTags == {"digest", "oauth1", "aws-signature", "basic", "bearer", "api-key", "oauth2"}

(* the call got as far as the match on auth_type, lib.rs:101 *)
SendDispatched ==
    /\ SendDone
    /\ send.env.db = "ready"
    /\ ~(send.request.use_cache = Some(TRUE) /\ send.env.cached # "miss")
    /\ ToUpper(send.request.method) \in SupportedMethods

(* C21: in a send_api_request at most one authentication handler runs, the  *)
(* one whose tag is the request's auth_type; when it returns an error the   *)
(* command returns that error and no HTTP request is sent.                  *)
C21_OneHandlerErrorsSurface ==
    SendDone =>
        /\ Len(send.out.handlers) <= 1
        /\ \A i \in 1..Len(send.out.handlers) :
              /\ send.out.handlers[i] \in HandlerTags
              /\ send.request.auth_type = Some(send.out.handlers[i])
        /\ (/\ SendDispatched
            /\ send.request.auth_type \in {Some(t) : t \in HandlerTags}
            /\ send.request.auth_data # Absent)
           => send.out.handlers = <<send.request.auth_type[1]>>
        /\ ~send.out.auth_ok =>
              /\ ~send.out.ok
              /\ send.out.err = send.out.auth_err
              /\ ~send.out.sent

C21_Witness ==
    /\ SendDone
    /\ send.out.handlers = <<"aws-signature">>
    /\ send.env.transport_ok
    /\ ~send.out.auth_ok
    /\ send.out.err = "failed to parse header value"
    /\ ~send.out.sent

NetworkOps == {"exchange_code_for_token", "client_credentials_flow", "refresh_token"}

(* C22: an authorization-code exchange, a client-credentials call and a     *)
(* refresh each send at most one request to the token endpoint; when that   *)
(* request fails the call returns the error and sends nothing more.         *)
C22_SingleTokenRequest ==
    last.op \in NetworkOps =>
        /\ Len(last.requests) <= 1
        /\ (last.requests # <<>> /\ ~last.resp.ok) =>
              /\ ~last.ok
              /\ last.err = "token request failed"
              /\ last.token = NoToken
              /\ Len(last.requests) = 1

C22_Witness ==
    /\ last.op = "refresh_token"
    /\ Len(last.requests) = 1
    /\ ~last.resp.ok
    /\ ~last.ok

(* C23: after a successful get_authorization_url the state parameter of the *)
(* returned URL is the CSRF token recorded in the manager, and it is the    *)
(* token drawn by that call; code_challenge with code_challenge_method=S256 *)
(* is in the URL exactly when use_pkce is true, and exactly then a verifier *)
(* is recorded.                                                             *)
C23_UrlMatchesRecordedFlow ==
    [][\A t \in Tokens, v \in Verifiers :
          (ManagerGetAuthorizationUrl(t, v) /\ last'.ok) =>
              /\ last'.url.state = t
              /\ manager'.csrf_token = t
              /\ IF manager.config.use_pkce
                 THEN /\ last'.url.code_challenge = S256(v)
                      /\ last'.url.code_challenge_method = "S256"
                      /\ manager'.pkce_verifier = v
                 ELSE /\ last'.url.code_challenge = None
                      /\ last'.url.code_challenge_method = None
                      /\ manager'.pkce_verifier = None
      ]_vars

C23_Witness ==
    /\ last.op = "get_authorization_url"
    /\ last.ok
    /\ last.self.csrf_token # None
    /\ last.self.csrf_token # manager.csrf_token
    /\ last.url.state = manager.csrf_token
    /\ last.url.code_challenge = S256(manager.pkce_verifier)

(***************************************************************************)
(* Signer calls running side by side, auth.rs:31-79, 94-149, 184-228.      *)
(* Each call is a frame of its own: the borrowed configuration and the     *)
(* locals of the function.  The steps of a call are its reads of the       *)
(* clock, its generate_nonce() draws and its return; the clock moves on    *)
(* between the steps of any call.                                          *)
(***************************************************************************)
NumCalls == 2

ConcDigestConfig ==
    [username |-> "user", password |-> "pass", realm |-> "test", nonce |-> "dcd98b",
     uri |-> "/dir", method |-> "GET", qop |-> "auth", nc |-> None, cnonce |-> None,
     opaque |-> None]

ConcOAuth1Config ==
    [consumer_key |-> <<"c", "k">>, consumer_secret |-> <<"c", " ", "s">>, token |-> Some(<<"t", "k">>),
     token_secret |-> Some(<<"t", "s">>), signature_method |-> Str_HMAC_SHA1, version |-> <<"1", ".", "0">>]

ConcAwsConfig ==
    [access_key |-> <<"A", "K">>, secret_key |-> <<"s", "k">>, region |-> <<"u", "s">>, service |-> <<"s", "3">>,
     session_token |-> Absent]

ConcParams == <<[key |-> <<"a">>, value |-> <<"1">>]>>
ConcHeaders == <<[name |-> <<"x", "-", "a">>, value |-> <<"v">>]>>
ConcUrl == [text |-> <<"h", "t", "t", "p", "s", ":", "/", "/", "h", "/", "p", "?", "q", "=", "1">>, valid |-> TRUE, path |-> <<"/", "p">>, query |-> Some(<<"q", "=", "1">>)]

SignerKinds == {"digest", "oauth1", "aws"}

(* the calls are numbered by kind: which call is which is only a name *)
KindOrder(kind) == CASE kind = "digest" -> 1 [] kind = "oauth1" -> 2 [] kind = "aws" -> 3

(* a call that has been entered and has run no statement yet *)
NewFrame(kind) ==
    [kind |-> kind, pc |-> "start", now |-> Absent, d1 |-> Absent, d2 |-> Absent, nonce |-> Absent, result |-> Absent]

(* the frame a call works on: its own *)
OwnFrame_Shared(calls, i) ==
    calls[CHOOSE j \in 1..NumCalls :
             /\ calls[j].kind = calls[i].kind
             /\ calls[j].pc = calls[i].pc
             /\ \A k \in 1..(j - 1) :
                   ~(calls[k].kind = calls[i].kind /\ calls[k].pc = calls[i].pc)]

OwnFrame(calls, i) == calls[i]

(* the value a signer hands back: the Digest header, the OAuth1 header as   *)
(* its parameters or the error, the signed AWS header map or the error     *)
Returned(kind, out) ==
    CASE kind = "digest" -> [ok |-> TRUE, err |-> "", value |-> out.header]
      [] kind = "oauth1" -> [ok |-> out.ok, err |-> out.err, value |-> out.header_params]
      [] kind = "aws" -> [ok |-> out.ok, err |-> out.err, value |-> out.headers]

(* the signers as tables over the draws and clock readings of a call: the  *)
(* AWS signer is given the reading of its first statement and the clock at *)
(* its return                                                              *)
DigestResults ==
    {<<d, Returned("digest", DigestGenerate(ConcDigestConfig, d[1], d[2]))>> :
        d \in Nonces \X Nonces}

OAuth1Results ==
    {<<p, Returned("oauth1",
                   OAuth1Generate(ConcOAuth1Config, <<"G", "E", "T">>, OAuth1Url, ConcParams,
                                  p[1], p[2]))>> :
        p \in ClockReadings \X NonceStrs}

AwsResults ==
    {<<c, Returned("aws",
                   AwsGenerate(ConcAwsConfig, AwsMethod, ConcUrl, ConcHeaders, AwsBody,
                               <<c[1], c[2]>>))>> :
        c \in ClockReadings \X ClockReadings}

(* the entry of a table *)
ResultAt(table, key) == (CHOOSE e \in table : e[1] = key)[2]

(* what a call returns from the locals of a frame; clockNow is the clock *)
(* when the call returns                                                 *)
SignerResult(frame, clockNow) ==
    CASE frame.kind = "digest" -> ResultAt(DigestResults, <<frame.d1[1], frame.d2[1]>>)
      [] frame.kind = "oauth1" -> ResultAt(OAuth1Results, <<frame.now[1], frame.nonce[1]>>)
      [] frame.kind = "aws" -> ResultAt(AwsResults, <<frame.now[1], clockNow>>)

(* SystemTime::now(), auth.rs:95 and auth.rs:191 *)
ConcReadClock(i) ==
    /\ conc.calls[i].kind \in {"oauth1", "aws"}
    /\ conc.calls[i].pc = "start"
    /\ conc' = [conc EXCEPT
                  !.calls[i].now = Some(conc.clock),
                  !.calls[i].pc = IF conc.calls[i].kind = "oauth1" THEN "nonce" ELSE "sign"]
    /\ UNCHANGED <<oauthVars, digestVars, cbVars, signVars, envs, cache, coll>>

(* generate_nonce() of auth.rs:44, then the one of auth.rs:69 *)
ConcDigestDraw(i, d) ==
    /\ conc.calls[i].kind = "digest"
    /\ conc.calls[i].pc \in {"start", "header"}
    /\ conc' = IF conc.calls[i].pc = "start"
               THEN [conc EXCEPT !.calls[i].d1 = Some(d), !.calls[i].pc = "header"]
               ELSE [conc EXCEPT !.calls[i].d2 = Some(d), !.calls[i].pc = "sign"]
    /\ UNCHANGED <<oauthVars, digestVars, cbVars, signVars, envs, cache, coll>>

(* generate_nonce() of auth.rs:100 *)
ConcOAuth1Draw(i, n) ==
    /\ conc.calls[i].kind = "oauth1"
    /\ conc.calls[i].pc = "nonce"
    /\ conc' = [conc EXCEPT !.calls[i].nonce = Some(n), !.calls[i].pc = "sign"]
    /\ UNCHANGED <<oauthVars, digestVars, cbVars, signVars, envs, cache, coll>>

(* the rest of the function, up to its return *)
ConcReturn(i) ==
    /\ conc.calls[i].pc = "sign"
    /\ conc' = [conc EXCEPT
                  !.calls[i].result = Some(SignerResult(OwnFrame(conc.calls, i), conc.clock)),
                  !.calls[i].pc = "done"]
    /\ UNCHANGED <<oauthVars, digestVars, cbVars, signVars, envs, cache, coll>>

(* the system clock moves on *)
ConcTick ==
    /\ conc.clock + 1 \in ClockReadings
    /\ conc' = [conc EXCEPT !.clock = conc.clock + 1]
    /\ UNCHANGED <<oauthVars, digestVars, cbVars, signVars, envs, cache, coll>>

InitConc ==
    /\ manager = New(NoFlow.config)
    /\ flowUrl = NoUrl
    /\ used = FALSE
    /\ cmdFlow = NoFlow
    /\ last = NoCall
    /\ DigestIdle
    /\ CallbackIdle
    /\ SignIdle
    /\ conc \in [phase : {"run"},
                 clock : {t \in ClockReadings : \A u \in ClockReadings : t <= u},
                 calls : {c \in [1..NumCalls -> {NewFrame(k) : k \in SignerKinds}] :
                             \A i \in 1..(NumCalls - 1) :
                                KindOrder(c[i].kind) <= KindOrder(c[i + 1].kind)}]
    /\ envs = Idle
    /\ cache = Idle
    /\ coll = Idle

NextConc ==
    \/ \E i \in 1..NumCalls : ConcReadClock(i)
    \/ \E i \in 1..NumCalls, d \in Nonces : ConcDigestDraw(i, d)
    \/ \E i \in 1..NumCalls, n \in NonceStrs : ConcOAuth1Draw(i, n)
    \/ \E i \in 1..NumCalls : ConcReturn(i)
    \/ ConcTick

SpecConc == InitConc /\ [][NextConc]_vars

(* the result of a call run alone: no other call, the clock standing still *)
RunAlone(frame) ==
    SignerResult(frame, IF frame.now = Absent THEN 0 ELSE frame.now[1])

(* C24: in every interleaving of Digest, OAuth1 and AWS signer calls each   *)
(* call returns what it returns when run alone with the same inputs, random *)
(* draws and clock reading, and a step of one call changes no other call.   *)
C24_SignersDoNotInterfere ==
    [][/\ \A i \in 1..NumCalls :
             /\ (conc.calls[i].pc # "done" /\ conc'.calls[i].pc = "done") =>
                   conc'.calls[i].result = Some(RunAlone(conc'.calls[i]))
             /\ conc.calls[i].pc = "done" => conc'.calls[i] = conc.calls[i]
       /\ Cardinality({i \in 1..NumCalls : conc'.calls[i] # conc.calls[i]}) <= 1
      ]_vars

C24_Witness ==
    /\ conc.phase = "run"
    /\ conc.calls[1].kind = "oauth1"
    /\ conc.calls[2].kind = "oauth1"
    /\ conc.calls[1].pc = "done"
    /\ conc.calls[2].pc = "done"
    /\ conc.calls[1].nonce # conc.calls[2].nonce
    /\ conc.calls[1].now # conc.calls[2].now
    /\ conc.calls[1].result # conc.calls[2].result

(***************************************************************************)
(* The method of the signature base string, auth.rs:163-169                *)
(***************************************************************************)
(* C25: the method component of the OAuth1 signature base string is the    *)
(* upper-cased HTTP method, so calls that differ only in the letter case   *)
(* of the method sign the same base string.                                *)
C25_MethodUpperCased ==
    (OAuth1Done /\ oauth1.now # BeforeEpoch) =>
        oauth1.out.base_string =
            percent_encode(ToUpper(oauth1.method)) \o <<"&">> \o percent_encode(oauth1.url)
            \o <<"&">> \o percent_encode(oauth1.out.param_string)

(***************************************************************************)
(* percent_encode as the application/x-www-form-urlencoded serialisation   *)
(***************************************************************************)
FormSafe == {"*", "-", ".", "_"}

(* the serialisation of one byte: a space is +, an alphanumeric and the    *)
(* bytes * - . _ are copied, every other byte is %XX in upper-case hex     *)
FormByte(c) ==
    IF c = " " THEN <<"+">>
    ELSE IF IsAlnum(Code(c)) \/ c \in FormSafe THEN <<c>>
    ELSE <<"%", HexDigit(Code(c) \div 16), HexDigit(Code(c) % 16)>>

(* C26: percent_encode is the form-urlencoded byte serialisation of its    *)
(* input: a space becomes +, a reserved character such as @ its %XX        *)
(* escape, alphanumerics stay; "hello world" gives "hello+world" and       *)
(* "test@example.com" gives "test%40example.com".                          *)
C26_PercentEncodeIsFormSerialize ==
    enc.phase = "done" =>
        /\ enc.output = Concat([i \in 1..Len(enc.input) |-> FormByte(enc.input[i])])
        /\ (enc.input = <<"h", "e", "l", "l", "o", " ", "w", "o", "r", "l", "d">>
               => enc.output = <<"h", "e", "l", "l", "o", "+", "w", "o", "r", "l", "d">>)
        /\ (enc.input = <<"t", "e", "s", "t", "@", "e", "x", "a", "m", "p", "l", "e", ".", "c", "o", "m">>
               => enc.output = <<"t", "e", "s", "t", "%", "4", "0", "e", "x", "a", "m", "p", "l", "e", ".", "c", "o", "m">>)
        /\ \A i \in 1..Len(enc.input) :
              /\ (enc.input = <<enc.input[i]>> /\ enc.input[i] = " ") => enc.output = <<"+">>
              /\ (enc.input = <<enc.input[i]>> /\ enc.input[i] = "@")
                    => enc.output = <<"%", "4", "0">>
              /\ (enc.input = <<enc.input[i]>> /\ IsAlnum(Code(enc.input[i])))
                    => enc.output = enc.input

C26_Witness ==
    /\ enc.phase = "done"
    /\ enc.input = <<"h", "e", "l", "l", "o", " ", "w", "o", "r", "l", "d">>
    /\ Len(enc.output) = Len(enc.input)
    /\ enc.output[6] = "+"

(***************************************************************************)
(* The header and the signed parameters, auth.rs:102-148                   *)
(***************************************************************************)
(* the oauth_* parameters the header carries besides the signature *)
OAuth1Emitted(out) ==
    {e \in Entries(out.oauth_params) : e.key # Str_oauth_signature}

(* C27: whatever the caller's request parameters, also ones keyed like a   *)
(* protocol parameter, every oauth_* value in the Authorization header is  *)
(* the value of that parameter in the merged set that was signed.          *)
C27_HeaderValuesAreSignedValues ==
    OAuth1Ok =>
        \A e \in OAuth1Emitted(oauth1.out) :
            /\ e.key \in Keys(oauth1.out.all_params)
            /\ Lookup(oauth1.out.all_params, e.key) = e.value

(***************************************************************************)
(* The environments table, database.rs:492-636 and 720-738.  A command of  *)
(* lib.rs:551-627 clones the pool out of the state lock and then awaits    *)
(* the Database method, so the statements of commands running side by side *)
(* interleave; no method opens a transaction.  A row is kept per id:       *)
(* whether it exists and its is_active column.                             *)
(***************************************************************************)
NumEnvs == 2
NumEnvTasks == 2

EnvIds == 1..NumEnvs
EnvTasks == 1..NumEnvTasks

NoEnvRow == [present |-> FALSE, is_active |-> FALSE]
EnvTaskIdle == [pc |-> "idle", id |-> 0]
NoEnvResult == [op |-> "none", ok |-> TRUE, env |-> Absent]

ActiveEnvs(rows) == {id \in EnvIds : rows[id].present /\ rows[id].is_active}

(* UPDATE environments SET is_active = FALSE, database.rs:545-548, 568-571 *)
DeactivateAll(rows) ==
    [id \in EnvIds |-> IF rows[id].present THEN [rows[id] EXCEPT !.is_active = FALSE]
                       ELSE rows[id]]

(* UPDATE environments SET is_active = ? WHERE id = ? *)
SetActiveColumn(rows, id, value) ==
    IF rows[id].present THEN [rows EXCEPT ![id].is_active = value] ELSE rows

(* create_environment, database.rs:492-516: one INSERT, is_active false *)
EnvCreate(id) ==
    /\ ~envs.rows[id].present
    /\ envs' = [envs EXCEPT
                  !.rows[id] = [present |-> TRUE, is_active |-> FALSE],
                  !.last = [op |-> "create_environment", ok |-> TRUE,
                            env |-> Some([id |-> id, is_active |-> FALSE])]]
    /\ UNCHANGED <<oauthVars, digestVars, cbVars, signVars, conc, cache, coll>>

(* set_active_environment, first statement, database.rs:545-548 *)
EnvSetActiveDeactivate(t, id) ==
    /\ envs.tasks[t].pc = "idle"
    /\ envs' = [envs EXCEPT
                  !.rows = DeactivateAll(envs.rows),
                  !.tasks[t] = [pc |-> "activate", id |-> id]]
    /\ UNCHANGED <<oauthVars, digestVars, cbVars, signVars, conc, cache, coll>>

(* set_active_environment, second statement, database.rs:551-555 *)
EnvSetActiveActivate(t) ==
    /\ envs.tasks[t].pc = "activate"
    /\ envs' = [envs EXCEPT
                  !.rows = SetActiveColumn(envs.rows, envs.tasks[t].id, TRUE),
                  !.tasks[t].pc = "fetch"]
    /\ UNCHANGED <<oauthVars, digestVars, cbVars, signVars, conc, cache, coll>>

(* set_active_environment, get_environment_by_id and return, database.rs:558-560 *)
EnvSetActiveReturn(t) ==
    /\ envs.tasks[t].pc = "fetch"
    /\ LET id == envs.tasks[t].id
       IN envs' = [envs EXCEPT
                     !.tasks[t] = EnvTaskIdle,
                     !.last = IF envs.rows[id].present
                              THEN [op |-> "set_active_environment", ok |-> TRUE,
                                    env |-> Some([id |-> id,
                                                  is_active |-> envs.rows[id].is_active])]
                              ELSE [op |-> "set_active_environment", ok |-> FALSE,
                                    env |-> Absent]]
    /\ UNCHANGED <<oauthVars, digestVars, cbVars, signVars, conc, cache, coll>>

(* clear_active_environment, database.rs:564-574 *)
EnvClearActive ==
    /\ envs' = [envs EXCEPT
                  !.rows = DeactivateAll(envs.rows),
                  !.last = [op |-> "clear_active_environment", ok |-> TRUE, env |-> Absent]]
    /\ UNCHANGED <<oauthVars, digestVars, cbVars, signVars, conc, cache, coll>>

(* update_environment, database.rs:599-615: is_active is written as the    *)
(* caller's Environment has it                                             *)
EnvUpdate(id, is_active) ==
    /\ envs' = [envs EXCEPT
                  !.rows = SetActiveColumn(envs.rows, id, is_active),
                  !.last = [op |-> "update_environment", ok |-> TRUE,
                            env |-> Some([id |-> id, is_active |-> is_active])]]
    /\ UNCHANGED <<oauthVars, digestVars, cbVars, signVars, conc, cache, coll>>

(* delete_environment, DELETE FROM variables, database.rs:620-623; the     *)
(* variables table is not part of the state                                *)
EnvDeleteVariables(t, id) ==
    /\ envs.tasks[t].pc = "idle"
    /\ envs' = [envs EXCEPT !.tasks[t] = [pc |-> "delete_row", id |-> id]]
    /\ UNCHANGED <<oauthVars, digestVars, cbVars, signVars, conc, cache, coll>>

(* delete_environment, DELETE FROM environments, database.rs:626-631 *)
EnvDeleteRow(t) ==
    /\ envs.tasks[t].pc = "delete_row"
    /\ envs' = [envs EXCEPT
                  !.rows[envs.tasks[t].id] = NoEnvRow,
                  !.tasks[t] = EnvTaskIdle,
                  !.last = [op |-> "delete_environment", ok |-> TRUE, env |-> Absent]]
    /\ UNCHANGED <<oauthVars, digestVars, cbVars, signVars, conc, cache, coll>>

(* get_active_environment, database.rs:720-738: LIMIT 1 yields any one of  *)
(* the active rows                                                         *)
EnvGetActive ==
    /\ \E found \in (IF ActiveEnvs(envs.rows) = {} THEN {Absent}
                     ELSE {Some([id |-> id, is_active |-> TRUE]) :
                              id \in ActiveEnvs(envs.rows)}) :
          envs' = [envs EXCEPT
                     !.last = [op |-> "get_active_environment", ok |-> TRUE, env |-> found]]
    /\ UNCHANGED <<oauthVars, digestVars, cbVars, signVars, conc, cache, coll>>

InitEnv ==
    /\ manager = New(NoFlow.config)
    /\ flowUrl = NoUrl
    /\ used = FALSE
    /\ cmdFlow = NoFlow
    /\ last = NoCall
    /\ DigestIdle
    /\ CallbackIdle
    /\ SignIdle
    /\ conc = Idle
    /\ envs = [phase |-> "run", rows |-> [id \in EnvIds |-> NoEnvRow],
               tasks |-> [t \in EnvTasks |-> EnvTaskIdle], last |-> NoEnvResult]
    /\ cache = Idle
    /\ coll = Idle

NextEnv ==
    \/ \E id \in EnvIds : EnvCreate(id)
    \/ \E t \in EnvTasks, id \in EnvIds : EnvSetActiveDeactivate(t, id)
    \/ \E t \in EnvTasks : EnvSetActiveActivate(t)
    \/ \E t \in EnvTasks : EnvSetActiveReturn(t)
    \/ EnvClearActive
    \/ \E id \in EnvIds, a \in BOOLEAN : EnvUpdate(id, a)
    \/ \E t \in EnvTasks, id \in EnvIds : EnvDeleteVariables(t, id)
    \/ \E t \in EnvTasks : EnvDeleteRow(t)
    \/ EnvGetActive

SpecEnv == InitEnv /\ [][NextEnv]_vars

(* C28: after any sequence and any interleaving of create_environment,     *)
(* set_active_environment, update_environment, clear_active_environment    *)
(* and delete_environment at most one environment has is_active = true.    *)
C28_AtMostOneActive ==
    envs.phase = "run" => Cardinality(ActiveEnvs(envs.rows)) <= 1

(***************************************************************************)
(* The response cache, database.rs:790-910.  Timestamps are written to the *)
(* TEXT columns with to_rfc3339() and the queries compare the bound        *)
(* to_rfc3339() of now with the column as text.  An instant is a second of *)
(* the hour and a fraction; a row is kept with the instants its columns    *)
(* spell (id, request_hash and expires_at, the columns the statements      *)
(* read) and the comparisons are made on the spelled text.                 *)
(***************************************************************************)
NumSeconds == 1

(* nanoseconds that to_rfc3339 prints with no, 3 and 9 fraction digits *)
Fractions == <<0, 500000000, 500000001>>

CacheSeconds == {58 + i : i \in 1..NumSeconds}
Instants == [sec : CacheSeconds, frac : 1..Len(Fractions)]
CacheDurations == {Absent, Some(0), Some(1)}

Nanos(t) == Fractions[t.frac]

(* the order of two instants in time *)
TimeLess(a, b) == a.sec < b.sec \/ (a.sec = b.sec /\ Nanos(a) < Nanos(b))

(* a number in a fixed count of decimal digits *)
RECURSIVE Padded(_, _)
Padded(n, width) ==
    IF width = 0 THEN <<>> ELSE Padded(n \div 10, width - 1) \o <<Chr(48 + (n % 10))>>

(* the fraction of a second as to_rfc3339() prints it *)
FractionText(nanos) ==
    IF nanos = 0 THEN <<>>
    ELSE IF nanos % 1000000 = 0 THEN <<".">> \o Padded(nanos \div 1000000, 3)
    ELSE IF nanos % 1000 = 0 THEN <<".">> \o Padded(nanos \div 1000, 6)
    ELSE <<".">> \o Padded(nanos, 9)

(* DateTime<Utc>::to_rfc3339() *)
to_rfc3339(t) ==
    <<"2", "0", "2", "4", "-", "0", "1", "-", "0", "1", "T", "0", "0", ":">> \o Padded(t.sec \div 60, 2) \o <<":">> \o Padded(t.sec % 60, 2)
    \o FractionText(Nanos(t)) \o <<"+", "0", "0", ":", "0", "0">>

(* now + chrono::Duration::seconds(duration), database.rs:811 *)
AddSeconds(t, duration) == [sec |-> t.sec + duration, frac |-> t.frac]

CacheRequests ==
    {[method |-> "GET", url |-> "http://h/a", headers |-> "{}", body |-> ""],
     [method |-> "POST", url |-> "http://h/a", headers |-> "{}", body |-> "x"]}

(* generate_request_hash, database.rs:790-794 *)
generate_request_hash(method, url, headers, body) ==
    "sha256(" \o method \o ":" \o url \o ":" \o headers \o ":" \o body \o ")"

RequestHash(req) == generate_request_hash(req.method, req.url, req.headers, req.body)

NoInstant == [sec |-> 0, frac |-> 1]
CacheTaskIdle == [pc |-> "idle", hash |-> "", now |-> NoInstant]
(* the last method that returned: now is the reading of get_cached_response *)
NoCacheResult == [op |-> "none", hash |-> "", now |-> NoInstant, found |-> Absent]

(* the text of every instant a column or a bound parameter can hold *)
Spelled ==
    {<<t, to_rfc3339(t)>> :
        t \in {AddSeconds(t0, d[1]) : t0 \in Instants, d \in CacheDurations \ {Absent}}}

(* the row is live when expires_at >= now *)
CacheLive_Inclusive(expires_at, now) ==
    \/ expires_at = Absent
    \/ ~StrLess(ResultAt(Spelled, expires_at[1]), ResultAt(Spelled, now))

(* expires_at IS NULL OR expires_at > ?, database.rs:862 *)
CacheLive(expires_at, now) ==
    \/ expires_at = Absent
    \/ StrLess(ResultAt(Spelled, now), ResultAt(Spelled, expires_at[1]))

(* Uuid::new_v4(), database.rs:808: an id no row holds *)
FreshId(table) ==
    CHOOSE i \in 1..(Cardinality(table) + 1) :
        /\ \A r \in table : r.id # i
        /\ \A j \in 1..(i - 1) : \E r \in table : r.id = j

(* REPLACE INTO response_cache, database.rs:826-843: the rows that hold    *)
(* the id or the request_hash of the new row are deleted                   *)
ReplaceInto(table, entry) ==
    {r \in table : r.id # entry.id /\ r.request_hash # entry.request_hash} \cup {entry}

(* cache_response, database.rs:797-847; the method returns the entry *)
CacheStore(req, duration) ==
    /\ LET entry == [id |-> FreshId(cache.table), request_hash |-> RequestHash(req),
                     expires_at |-> IF duration = Absent THEN Absent
                                    ELSE Some(AddSeconds(cache.clock, duration[1]))]
       IN cache' = [cache EXCEPT
                      !.table = ReplaceInto(cache.table, entry),
                      !.last = [op |-> "cache_response", hash |-> entry.request_hash,
                                now |-> NoInstant, found |-> Some(entry)]]
    /\ UNCHANGED <<oauthVars, digestVars, cbVars, signVars, conc, envs, coll>>

(* get_cached_response up to the query, database.rs:857-858 *)
CacheGetBegin(req) ==
    /\ cache.reader.pc = "idle"
    /\ cache' = [cache EXCEPT
                   !.reader = [pc |-> "query", hash |-> RequestHash(req), now |-> cache.clock]]
    /\ UNCHANGED <<oauthVars, digestVars, cbVars, signVars, conc, envs, coll>>

(* the SELECT and the return, database.rs:860-890 *)
CacheGetQuery ==
    /\ cache.reader.pc = "query"
    /\ LET f == cache.reader
           rows == {r \in cache.table :
                       r.request_hash = f.hash /\ CacheLive(r.expires_at, f.now)}
       IN \E found \in (IF rows = {} THEN {Absent} ELSE {Some(r) : r \in rows}) :
             cache' = [cache EXCEPT
                         !.reader = CacheTaskIdle,
                         !.last = [op |-> "get_cached_response", hash |-> f.hash,
                                   now |-> f.now, found |-> found]]
    /\ UNCHANGED <<oauthVars, digestVars, cbVars, signVars, conc, envs, coll>>

(* clear_expired_cache, database.rs:894-902:                               *)
(* DELETE ... WHERE expires_at IS NOT NULL AND expires_at <= ?             *)
CacheClearExpired ==
    /\ cache' = [cache EXCEPT
                   !.table = {r \in cache.table :
                                 \/ r.expires_at = Absent
                                 \/ StrLess(ResultAt(Spelled, cache.clock),
                                            ResultAt(Spelled, r.expires_at[1]))},
                   !.last = [op |-> "clear_expired_cache", hash |-> "",
                             now |-> NoInstant, found |-> Absent]]
    /\ UNCHANGED <<oauthVars, digestVars, cbVars, signVars, conc, envs, coll>>

(* clear_all_cache, database.rs:905-911 *)
CacheClearAll ==
    /\ cache' = [cache EXCEPT
                   !.table = {},
                   !.last = [op |-> "clear_all_cache", hash |-> "", now |-> NoInstant,
                             found |-> Absent]]
    /\ UNCHANGED <<oauthVars, digestVars, cbVars, signVars, conc, envs, coll>>

(* the clock moves on to the next instant *)
CacheTick ==
    /\ \E next \in Instants :
          /\ \/ (next.sec = cache.clock.sec /\ next.frac = cache.clock.frac + 1)
             \/ (next.sec = cache.clock.sec + 1 /\ next.frac = 1
                 /\ cache.clock.frac = Len(Fractions))
          /\ cache' = [cache EXCEPT !.clock = next]
    /\ UNCHANGED <<oauthVars, digestVars, cbVars, signVars, conc, envs, coll>>

InitCache ==
    /\ manager = New(NoFlow.config)
    /\ flowUrl = NoUrl
    /\ used = FALSE
    /\ cmdFlow = NoFlow
    /\ last = NoCall
    /\ DigestIdle
    /\ CallbackIdle
    /\ SignIdle
    /\ conc = Idle
    /\ envs = Idle
    /\ cache = [phase |-> "run",
                clock |-> CHOOSE t \in Instants : \A u \in Instants : t = u \/ TimeLess(t, u),
                table |-> {}, reader |-> CacheTaskIdle, last |-> NoCacheResult]
    /\ coll = Idle

NextCache ==
    \/ \E req \in CacheRequests, d \in CacheDurations : CacheStore(req, d)
    \/ \E req \in CacheRequests : CacheGetBegin(req)
    \/ CacheGetQuery
    \/ CacheClearExpired
    \/ CacheClearAll
    \/ CacheTick

SpecCache == InitCache /\ [][NextCache]_vars

(* C29: get_cached_response returns no entry whose expires_at is at or     *)
(* before the time the call read, it returns the entry of the hash that    *)
(* was stored without an expiry for as long as that entry is in the table, *)
(* and when cache_response has run the only entry of the hash is the one   *)
(* it stored.                                                              *)
C29_CacheReturnsLiveEntries ==
    [][/\ (cache'.last.op = "get_cached_response" /\ cache'.last.found # Absent) =>
             /\ cache'.last.found[1].request_hash = cache'.last.hash
             /\ \/ cache'.last.found[1].expires_at = Absent
                \/ TimeLess(cache'.last.now, cache'.last.found[1].expires_at[1])
       /\ (cache.reader.pc = "query" /\ cache'.reader.pc = "idle") =>
             \A r \in cache.table :
                (r.request_hash = cache.reader.hash /\ r.expires_at = Absent)
                   => cache'.last.found = Some(r)
       /\ (cache'.last.op = "cache_response" /\ cache'.last # cache.last) =>
             /\ cache'.last.found # Absent
             /\ \A r \in cache.table : r.id # cache'.last.found[1].id
             /\ cache'.last.found[1].request_hash = cache'.last.hash
             /\ {r \in cache'.table : r.request_hash = cache'.last.hash}
                   = {cache'.last.found[1]}
      ]_vars

C29_Witness ==
    /\ cache.phase = "run"
    /\ cache.last.op = "get_cached_response"
    /\ cache.last.found # Absent
    /\ cache.last.found[1].expires_at # Absent
    /\ cache.last.found[1].id > 1
    /\ cache.last.now = cache.clock
    /\ cache.clock.frac = Len(Fractions)

(***************************************************************************)
(* Collections and their requests, database.rs:104-138, 196-301, 327-442,  *)
(* and import_collection_from_json, lib.rs:501-547.  requests.collection_id *)
(* REFERENCES collections(id) and the pool enforces the reference on every *)
(* statement: an INSERT or UPDATE naming a collection that is not there    *)
(* fails, and so does the DELETE of a collection that a request names.     *)
(* Ids are Uuid::new_v4() draws, never drawn twice.  A request row is kept *)
(* as the collection it names, 0 for no row.                               *)
(***************************************************************************)
NumColls == 2
NumReqs == 2

CollIds == 1..NumColls
ReqIds == 1..NumReqs

CollTaskIdle == [pc |-> "idle", id |-> 0, req |-> 0, left |-> 0]
NoCollResult == [op |-> "none", ok |-> TRUE, id |-> 0]

(* the reference of a row is not enforced *)
Referenced_Unenforced(requests, c) == FALSE

(* a request row names the collection *)
Referenced(requests, c) == \E r \in ReqIds : requests[r] = c

(* INSERT INTO requests, database.rs:353-370 *)
InsertRequest(state, r, c) ==
    IF c \in state.collections
    THEN [state EXCEPT !.requests[r] = c, !.next_req = r + 1]
    ELSE [state EXCEPT !.next_req = r + 1]

(* UPDATE requests SET collection_id = ?, ... WHERE id = ?, database.rs:417-438 *)
UpdateRequestOk(state, r, c) == state.requests[r] = 0 \/ c \in state.collections

UpdateRequestRow(state, r, c) ==
    IF state.requests[r] # 0 /\ c \in state.collections
    THEN [state EXCEPT !.requests[r] = c]
    ELSE state

(* create_collection, database.rs:196-227 *)
CollCreate ==
    /\ coll.next_coll \in CollIds
    /\ coll' = [coll EXCEPT
                  !.collections = coll.collections \cup {coll.next_coll},
                  !.next_coll = coll.next_coll + 1,
                  !.last = [op |-> "create_collection", ok |-> TRUE, id |-> coll.next_coll]]
    /\ UNCHANGED <<oauthVars, digestVars, cbVars, signVars, conc, envs, cache>>

(* create_request, database.rs:327-373 *)
CollCreateRequest(c) ==
    /\ coll.next_req \in ReqIds
    /\ coll' = [InsertRequest(coll, coll.next_req, c) EXCEPT
                  !.last = [op |-> "create_request", ok |-> c \in coll.collections, id |-> c]]
    /\ UNCHANGED <<oauthVars, digestVars, cbVars, signVars, conc, envs, cache>>

(* update_request, database.rs:410-442: the caller's Request gives the row *)
(* and the collection it is to name                                        *)
CollUpdateRequest(r, c) ==
    /\ r < coll.next_req
    /\ coll' = [UpdateRequestRow(coll, r, c) EXCEPT
                  !.last = [op |-> "update_request", ok |-> UpdateRequestOk(coll, r, c),
                            id |-> c]]
    /\ UNCHANGED <<oauthVars, digestVars, cbVars, signVars, conc, envs, cache>>

(* delete_collection, DELETE FROM requests WHERE collection_id = ?,        *)
(* database.rs:286-289                                                     *)
CollDeleteRequests(c) ==
    /\ coll.deleter.pc = "idle"
    /\ c < coll.next_coll
    /\ coll' = [coll EXCEPT
                  !.requests = [r \in ReqIds |-> IF coll.requests[r] = c THEN 0
                                                 ELSE coll.requests[r]],
                  !.deleter = [pc |-> "delete_collection", id |-> c, req |-> 0, left |-> 0]]
    /\ UNCHANGED <<oauthVars, digestVars, cbVars, signVars, conc, envs, cache>>

(* delete_collection, DELETE FROM collections WHERE id = ?, and the        *)
(* return, database.rs:294-300                                             *)
CollDeleteCollection ==
    /\ coll.deleter.pc = "delete_collection"
    /\ LET c == coll.deleter.id
           failed == Referenced(coll.requests, c)
       IN coll' = [coll EXCEPT
                     !.collections = IF failed THEN coll.collections
                                     ELSE coll.collections \ {c},
                     !.deleted = IF failed THEN coll.deleted ELSE coll.deleted \cup {c},
                     !.deleter = CollTaskIdle,
                     !.last = [op |-> "delete_collection", ok |-> ~failed, id |-> c]]
    /\ UNCHANGED <<oauthVars, digestVars, cbVars, signVars, conc, envs, cache>>

(* import_collection_from_json, create_collection, lib.rs:516-519; n is    *)
(* the number of requests of the JSON                                      *)
ImportCreateCollection(n) ==
    /\ coll.importer.pc = "idle"
    /\ coll.next_coll \in CollIds
    /\ coll' = [coll EXCEPT
                  !.collections = coll.collections \cup {coll.next_coll},
                  !.next_coll = coll.next_coll + 1,
                  !.importer = [pc |-> "create_request", id |-> coll.next_coll, req |-> 0,
                                left |-> n]]
    /\ UNCHANGED <<oauthVars, digestVars, cbVars, signVars, conc, envs, cache>>

(* import_collection_from_json, create_request of the loop, lib.rs:522-531; *)
(* with no request left the command returns the collection, lib.rs:546     *)
ImportCreateRequest ==
    /\ coll.importer.pc = "create_request"
    /\ coll.importer.left = 0 \/ coll.next_req \in ReqIds
    /\ LET f == coll.importer
       IN coll' =
            IF f.left = 0
            THEN [coll EXCEPT
                    !.importer = CollTaskIdle,
                    !.last = [op |-> "import_collection_from_json", ok |-> TRUE, id |-> f.id]]
            ELSE IF f.id \in coll.collections
            THEN [InsertRequest(coll, coll.next_req, f.id) EXCEPT
                    !.importer = [pc |-> "update_request", id |-> f.id,
                                  req |-> coll.next_req, left |-> f.left - 1]]
            ELSE [InsertRequest(coll, coll.next_req, f.id) EXCEPT
                    !.importer = CollTaskIdle,
                    !.last = [op |-> "import_collection_from_json", ok |-> FALSE, id |-> f.id]]
    /\ UNCHANGED <<oauthVars, digestVars, cbVars, signVars, conc, envs, cache>>

(* import_collection_from_json, update_request of the loop, lib.rs:534-543 *)
ImportUpdateRequest ==
    /\ coll.importer.pc = "update_request"
    /\ LET f == coll.importer
       IN coll' =
            IF UpdateRequestOk(coll, f.req, f.id)
            THEN [UpdateRequestRow(coll, f.req, f.id) EXCEPT
                    !.importer = [pc |-> "create_request", id |-> f.id, req |-> 0,
                                  left |-> f.left]]
            ELSE [coll EXCEPT
                    !.importer = CollTaskIdle,
                    !.last = [op |-> "import_collection_from_json", ok |-> FALSE, id |-> f.id]]
    /\ UNCHANGED <<oauthVars, digestVars, cbVars, signVars, conc, envs, cache>>

InitColl ==
    /\ manager = New(NoFlow.config)
    /\ flowUrl = NoUrl
    /\ used = FALSE
    /\ cmdFlow = NoFlow
    /\ last = NoCall
    /\ DigestIdle
    /\ CallbackIdle
    /\ SignIdle
    /\ conc = Idle
    /\ envs = Idle
    /\ cache = Idle
    /\ coll = [phase |-> "run", collections |-> {}, requests |-> [r \in ReqIds |-> 0],
               next_coll |-> 1, next_req |-> 1, deleted |-> {},
               deleter |-> CollTaskIdle, importer |-> CollTaskIdle, last |-> NoCollResult]

NextColl ==
    \/ CollCreate
    \/ \E c \in CollIds : CollCreateRequest(c)
    \/ \E r \in ReqIds, c \in CollIds : CollUpdateRequest(r, c)
    \/ \E c \in CollIds : CollDeleteRequests(c)
    \/ CollDeleteCollection
    \/ \E n \in 0..NumReqs : ImportCreateCollection(n)
    \/ ImportCreateRequest
    \/ ImportUpdateRequest

SpecColl == InitColl /\ [][NextColl]_vars

(* C30: once delete_collection(id) has returned successfully the           *)
(* collection does not exist and no request row has collection_id = id,    *)
(* in every interleaving with create_request, update_request and           *)
(* import_collection_from_json.                                            *)
C30_DeletedCollectionLeavesNoRequests ==
    coll.phase = "run" =>
        \A c \in coll.deleted :
            /\ c \notin coll.collections
            /\ \A r \in ReqIds : coll.requests[r] # c

C30_Witness ==
    /\ coll.phase = "run"
    /\ coll.deleted # {}
    /\ coll.last.op = "create_request"
    /\ coll.last.id \in coll.deleted
    /\ ~coll.last.ok
    /\ coll.importer.pc = "update_request"

====
